---- MODULE Spec2Model ----
(***************************************************************************)
(* chatmock: provider registry (remote.Manager), router (Manager.Match,    *)
(* ShouldProxy, NormalizeModel), protocol translators (remote.Client) and  *)
(* the completion orchestrator (api.Handlers.runCompletion).               *)
(*                                                                         *)
(* A Go string is a sequence of one-character strings, so that TrimSpace,  *)
(* HasPrefix, TrimPrefix, ToLower ... are computed, not assumed.           *)
(***************************************************************************)
EXTENDS Integers, Sequences, FiniteSets, TLC

\* ------------------------------------------------------------------ bounds
\* largest number of providers the registry is allowed to grow to
MaxLen == 2
\* number of concurrent callers of the registry
NumProcs == 2
\* number of backing arrays that can be live at once
NumArrays == 4

\* ------------------------------------------------- package strings (Go std)
SetMin(S) == CHOOSE x \in S : \A y \in S : x <= y
SetMax(S) == CHOOSE x \in S : \A y \in S : x >= y

\* unicode.IsSpace restricted to the characters that occur in the inputs
IsSpace(c) == c \in {" ", "\t", "\n", "\r"}

RECURSIVE TrimLeftSpace(_)
TrimLeftSpace(s) ==
  IF Len(s) = 0 \/ ~IsSpace(s[1]) THEN s ELSE TrimLeftSpace(Tail(s))

RECURSIVE TrimRightSpace(_)
TrimRightSpace(s) ==
  IF Len(s) = 0 \/ ~IsSpace(s[Len(s)]) THEN s ELSE TrimRightSpace(SubSeq(s, 1, Len(s) - 1))

TrimSpace(s) == TrimRightSpace(TrimLeftSpace(s))

Blank(s) == TrimSpace(s) = <<>>

HasPrefix(s, prefix) ==
  Len(prefix) <= Len(s) /\ SubSeq(s, 1, Len(prefix)) = prefix

TrimPrefix(s, prefix) ==
  IF HasPrefix(s, prefix) THEN SubSeq(s, Len(prefix) + 1, Len(s)) ELSE s

HasSuffix(s, suffix) ==
  Len(suffix) <= Len(s) /\ SubSeq(s, Len(s) - Len(suffix) + 1, Len(s)) = suffix

TrimSuffix(s, suffix) ==
  IF HasSuffix(s, suffix) THEN SubSeq(s, 1, Len(s) - Len(suffix)) ELSE s

RECURSIVE TrimRight(_, _)
TrimRight(s, cutset) ==
  IF Len(s) = 0 \/ s[Len(s)] \notin cutset THEN s
  ELSE TrimRight(SubSeq(s, 1, Len(s) - 1), cutset)

UpperAlpha == <<"A", "B", "C", "D", "E", "F", "G", "H", "I", "J", "K", "L", "M",
                "N", "O", "P", "Q", "R", "S", "T", "U", "V", "W", "X", "Y", "Z">>
LowerAlpha == <<"a", "b", "c", "d", "e", "f", "g", "h", "i", "j", "k", "l", "m",
                "n", "o", "p", "q", "r", "s", "t", "u", "v", "w", "x", "y", "z">>

UpperSet == {UpperAlpha[i] : i \in 1..26}
LowerOf == [c \in UpperSet |-> LowerAlpha[CHOOSE i \in 1..26 : UpperAlpha[i] = c]]

LowerChar(c) == IF c \in UpperSet THEN LowerOf[c] ELSE c

ToLower(s) == [i \in 1..Len(s) |-> LowerChar(s[i])]

Contains(s, substr) ==
  \E i \in 0..(Len(s) - Len(substr)) : SubSeq(s, i + 1, i + Len(substr)) = substr

RECURSIVE Join(_, _)
Join(elems, sep) ==
  IF Len(elems) = 0 THEN <<>>
  ELSE IF Len(elems) = 1 THEN elems[1]
  ELSE elems[1] \o sep \o Join(Tail(elems), sep)

\* ------------------------------------------------------- string literals
S_empty == <<>>
S_sp == <<" ">>
S_slash == <<"/">>
S_openai == <<"o", "p", "e", "n", "a", "i">>
S_ollama == <<"o", "l", "l", "a", "m", "a">>
S_codex == <<"c", "o", "d", "e", "x">>
S_chatgpt == <<"c", "h", "a", "t", "g", "p", "t">>
S_ollamaPrefix == <<"o", "l", "l", "a", "m", "a", "/">>
S_codexPrefix == <<"c", "o", "d", "e", "x", "/">>
S_chatgptPrefix == <<"c", "h", "a", "t", "g", "p", "t", "/">>
S_remotePrefix == <<"r", "e", "m", "o", "t", "e", "/">>
S_chatgptURL == <<"h", "t", "t", "p", "s", ":", "/", "/", "c", "h", "a", "t", "g", "p", "t", ".", "c", "o", "m">>

S_v1ChatCompletions == <<"/", "v", "1", "/", "c", "h", "a", "t", "/", "c", "o", "m", "p", "l", "e", "t", "i", "o", "n", "s">>
S_codexResponses == <<"/", "b", "a", "c", "k", "e", "n", "d", "-", "a", "p", "i", "/", "c", "o", "d", "e", "x", "/", "r", "e", "s", "p", "o", "n", "s", "e", "s">>
S_apiChat == <<"/", "a", "p", "i", "/", "c", "h", "a", "t">>
S_gptMock1 == <<"g", "p", "t", "-", "m", "o", "c", "k", "-", "1">>
S_hello == <<"h", "e", "l", "l", "o">>
S_weather == <<"w", "e", "a", "t", "h", "e", "r">>
S_helloReply == <<"H", "i", "!", " ", "T", "h", "i", "s", " ", "i", "s", " ", "a", " ", "m", "o", "c", "k", "e", "d", " ", "a", "s", "s", "i", "s", "t", "a", "n", "t", " ", "r", "e", "s", "p", "o", "n", "s", "e", ".">>
S_weatherReply == <<"T", "h", "e", " ", "m", "o", "c", "k", " ", "f", "o", "r", "e", "c", "a", "s", "t", ":", " ", "s", "u", "n", "n", "y", " ", "w", "i", "t", "h", " ", "a", " ", "c", "h", "a", "n", "c", "e", " ", "o", "f", " ", "u", "n", "i", "t", " ", "t", "e", "s", "t", "s", ".">>
S_fallbackReply == <<"M", "o", "c", "k", " ", "r", "e", "s", "p", "o", "n", "s", "e", ":", " ", "I", " ", "r", "e", "c", "e", "i", "v", "e", "d", " ", "y", "o", "u", "r", " ", "m", "e", "s", "s", "a", "g", "e", " ", "a", "n", "d", " ", "n", "o", " ", "c", "u", "s", "t", "o", "m", " ", "r", "u", "l", "e", " ", "m", "a", "t", "c", "h", "e", "d", ".">>
S_Bearer == <<"B", "e", "a", "r", "e", "r", " ">>
S_assistant == <<"a", "s", "s", "i", "s", "t", "a", "n", "t">>
S_user == <<"u", "s", "e", "r">>
S_stop == <<"s", "t", "o", "p">>
S_chatCompletion == <<"c", "h", "a", "t", ".", "c", "o", "m", "p", "l", "e", "t", "i", "o", "n">>
S_idMock == <<"c", "h", "a", "t", "c", "m", "p", "l", "-", "m", "o", "c", "k">>
S_idOllama == <<"c", "h", "a", "t", "c", "m", "p", "l", "-", "o", "l", "l", "a", "m", "a">>
S_idChatGPT == <<"c", "h", "a", "t", "c", "m", "p", "l", "-", "c", "h", "a", "t", "g", "p", "t">>
S_appJSON == <<"a", "p", "p", "l", "i", "c", "a", "t", "i", "o", "n", "/", "j", "s", "o", "n">>

\* ------------------------------------------------ remote.Provider records
Provider(name, kind, baseURL, apiKey, accessToken, accountID, modelPrefix, routeAll) ==
  [Name |-> name, Kind |-> kind, BaseURL |-> baseURL, APIKey |-> apiKey,
   AccessToken |-> accessToken, AccountID |-> accountID,
   ModelPrefix |-> modelPrefix, RouteAll |-> routeAll]

\* the zero value Provider{} that Match returns when nothing matches
ZeroProvider == Provider(<<>>, <<>>, <<>>, <<>>, <<>>, <<>>, <<>>, FALSE)

\* the default prefix without the switch on the kind
DefaultPrefix_alwaysRemote(kind) == S_remotePrefix

DefaultPrefix(kind) ==
  IF kind = S_ollama THEN S_ollamaPrefix
  ELSE IF kind = S_codex THEN S_codexPrefix
  ELSE IF kind = S_chatgpt THEN S_chatgptPrefix
  ELSE S_remotePrefix

normalizeProvider(p) ==
  LET kind   == ToLower(TrimSpace(IF Blank(p.Kind) THEN S_openai ELSE p.Kind))
      prefix == IF Blank(p.ModelPrefix) THEN DefaultPrefix(kind) ELSE p.ModelPrefix
      name   == IF Blank(p.Name) THEN TrimSuffix(prefix, S_slash) ELSE p.Name
      base   == IF Blank(p.BaseURL) /\ kind = S_chatgpt THEN S_chatgptURL ELSE p.BaseURL
  IN  [p EXCEPT !.Kind = kind, !.ModelPrefix = prefix, !.Name = name, !.BaseURL = base]

\* sameProvider that compares the prefixes before the names
sameProvider_prefixFirst(a, b) ==
  IF ~Blank(a.ModelPrefix) /\ ~Blank(b.ModelPrefix) THEN a.ModelPrefix = b.ModelPrefix
  ELSE IF ~Blank(a.Name) /\ ~Blank(b.Name) THEN a.Name = b.Name
  ELSE a.Kind = b.Kind /\ a.BaseURL = b.BaseURL

sameProvider(a, b) ==
  IF ~Blank(a.Name) /\ ~Blank(b.Name) THEN a.Name = b.Name
  ELSE IF ~Blank(a.ModelPrefix) /\ ~Blank(b.ModelPrefix) THEN a.ModelPrefix = b.ModelPrefix
  ELSE a.Kind = b.Kind /\ a.BaseURL = b.BaseURL

\* ---------------------------------------------------------------- router
\* ShouldProxy without the base url test
ShouldProxy_anyBaseURL(provider, requestedModel) ==
  IF provider.RouteAll THEN TRUE
  ELSE LET prefix == TrimSpace(provider.ModelPrefix)
       IN  prefix # <<>> /\ HasPrefix(TrimSpace(requestedModel), prefix)

ShouldProxy(provider, requestedModel) ==
  IF Blank(provider.BaseURL) THEN FALSE
  ELSE IF provider.RouteAll THEN TRUE
  ELSE LET prefix == TrimSpace(provider.ModelPrefix)
       IN  prefix # <<>> /\ HasPrefix(TrimSpace(requestedModel), prefix)

\* NormalizeModel that forwards the trimmed model without stripping
NormalizeModel_keepPrefix(provider, requestedModel) == TrimSpace(requestedModel)

\* NormalizeModel that strips every leading occurrence of the prefix
RECURSIVE StripAll(_, _)
StripAll(model, prefix) ==
  IF prefix # <<>> /\ HasPrefix(model, prefix)
  THEN StripAll(TrimPrefix(model, prefix), prefix) ELSE model
NormalizeModel_stripAll(provider, requestedModel) ==
  StripAll(TrimSpace(requestedModel), TrimSpace(provider.ModelPrefix))

NormalizeModel(provider, requestedModel) ==
  LET model  == TrimSpace(requestedModel)
      prefix == TrimSpace(provider.ModelPrefix)
  IN  IF prefix # <<>> /\ HasPrefix(model, prefix) THEN TrimPrefix(model, prefix) ELSE model

\* Match that keeps scanning and returns the last provider that accepts
MatchIn_lastWins(list, requestedModel) ==
  LET hits == {i \in 1..Len(list) : ShouldProxy(list[i], requestedModel)}
  IN  IF hits = {}
      THEN [provider |-> ZeroProvider, model |-> <<>>, found |-> FALSE]
      ELSE LET p == list[SetMax(hits)]
           IN  [provider |-> p, model |-> NormalizeModel(p, requestedModel), found |-> TRUE]

\* Manager.Match as a function of the list it ranges over
MatchIn(list, requestedModel) ==
  LET hits == {i \in 1..Len(list) : ShouldProxy(list[i], requestedModel)}
  IN  IF hits = {}
      THEN [provider |-> ZeroProvider, model |-> <<>>, found |-> FALSE]
      ELSE LET p == list[SetMin(hits)]
           IN  [provider |-> p, model |-> NormalizeModel(p, requestedModel), found |-> TRUE]

\* -------------------------------------------------------------- registry
\* Upsert that never finds an identity match
UpsertIn_alwaysAppend(list, provider) == Append(list, normalizeProvider(provider))

\* Upsert that keeps the credentials of the old record where the new one
\* leaves them blank
UpsertIn_merge(list, provider) ==
  LET p    == normalizeProvider(provider)
      same == {i \in 1..Len(list) : sameProvider(list[i], p)}
      old  == list[SetMin(same)]
      kept == [p EXCEPT !.APIKey = IF Blank(p.APIKey) THEN old.APIKey ELSE @,
                        !.AccessToken = IF Blank(p.AccessToken) THEN old.AccessToken ELSE @,
                        !.AccountID = IF Blank(p.AccountID) THEN old.AccountID ELSE @]
  IN  IF same # {} THEN [list EXCEPT ![SetMin(same)] = kept] ELSE Append(list, p)

\* Manager.Upsert as a function of the list
UpsertIn(list, provider) ==
  LET p    == normalizeProvider(provider)
      same == {i \in 1..Len(list) : sameProvider(list[i], p)}
  IN  IF same # {} THEN [list EXCEPT ![SetMin(same)] = p] ELSE Append(list, p)

\* Manager.SetAll as a function of its argument
SetAllOf(list) == [i \in 1..Len(list) |-> normalizeProvider(list[i])]

\* Views that tests the credentials against "" without trimming
ViewOf_untrimmed(p) ==
  [Name |-> p.Name, Kind |-> p.Kind, BaseURL |-> p.BaseURL,
   HasAPIKey |-> p.APIKey # <<>>, HasAccessToken |-> p.AccessToken # <<>>,
   HasAccountID |-> p.AccountID # <<>>,
   ModelPrefix |-> p.ModelPrefix, RouteAll |-> p.RouteAll]

ViewOf(p) ==
  [Name |-> p.Name, Kind |-> p.Kind, BaseURL |-> p.BaseURL,
   HasAPIKey |-> ~Blank(p.APIKey), HasAccessToken |-> ~Blank(p.AccessToken),
   HasAccountID |-> ~Blank(p.AccountID),
   ModelPrefix |-> p.ModelPrefix, RouteAll |-> p.RouteAll]

ViewsOf(list) == [i \in 1..Len(list) |-> ViewOf(list[i])]

RECURSIVE NewManagerOf(_)
NewManagerOf(seed) ==
  IF Len(seed) = 0 THEN <<>>
  ELSE UpsertIn(NewManagerOf(SubSeq(seed, 1, Len(seed) - 1)), seed[Len(seed)])

\* ------------------------------------------------- slices and their arrays
\* A Go slice is a pointer to a backing array with a length; its capacity is
\* what the array holds. Two slices on one array see each other's writes.
Arrays == 1..NumArrays
NilSlice == [arr |-> 0, len |-> 0]
Cap(h, s) == IF s.arr = 0 THEN 0 ELSE Len(h[s.arr])
Contents(h, s) == IF s.arr = 0 THEN <<>> ELSE SubSeq(h[s.arr], 1, s.len)

\* an array that nothing reachable points to
Fresh(roots) == SetMin(Arrays \ roots)
\* Addresses are not observable: once an operation is over, the arrays that
\* nothing points to are gone and the others are numbered by who points to
\* them, the registry first, then the list handed out, then the argument.
Settled(h, m, hd, ar) ==
  LET mAt  == IF m.arr = 0 THEN 0 ELSE 1
      hdAt == IF hd.arr = 0 THEN 0 ELSE IF hd.arr = m.arr THEN mAt ELSE 2
      arAt == IF ar.arr = 0 THEN 0
              ELSE IF ar.arr = m.arr THEN mAt ELSE IF ar.arr = hd.arr THEN hdAt ELSE 3
  IN  [heap   |-> [a \in Arrays |->
                     IF a = mAt THEN h[m.arr] ELSE IF a = hdAt THEN h[hd.arr]
                     ELSE IF a = arAt THEN h[ar.arr] ELSE <<>>],
       mslice |-> [m EXCEPT !.arr = mAt],
       held   |-> [hd EXCEPT !.arr = hdAt],
       arg    |-> [ar EXCEPT !.arr = arAt]]

Mem(h, s) == [heap |-> h, slice |-> s]

\* append(s, x): in place while the capacity lasts, else into a new array of
\* twice the capacity
GoAppend(h, s, x, roots, zero) ==
  IF s.len < Cap(h, s)
  THEN Mem([h EXCEPT ![s.arr][s.len + 1] = x], [s EXCEPT !.len = @ + 1])
  ELSE LET a      == Fresh(roots \cup {s.arr})
           newcap == IF Cap(h, s) = 0 THEN 1 ELSE 2 * Cap(h, s)
           grown  == [i \in 1..newcap |->
                        IF i <= s.len THEN h[s.arr][i] ELSE IF i = s.len + 1 THEN x ELSE zero]
       IN  Mem([h EXCEPT ![a] = grown], [arr |-> a, len |-> s.len + 1])

\* a slice literal with the elements of list
Literal(h, list, roots) ==
  IF Len(list) = 0 THEN Mem(h, NilSlice)
  ELSE LET a == Fresh(roots) IN Mem([h EXCEPT ![a] = list], [arr |-> a, len |-> Len(list)])

\* Manager.Upsert on the backing array of m.providers
UpsertHeap(h, m, provider, roots) ==
  LET p    == normalizeProvider(provider)
      list == Contents(h, m)
      same == {i \in 1..Len(list) : sameProvider(list[i], p)}
  IN  IF same # {} THEN Mem([h EXCEPT ![m.arr][SetMin(same)] = p], m)
      ELSE GoAppend(h, m, p, roots, ZeroProvider)

\* the loop of Manager.SetAll from element i of the argument on
RECURSIVE SetAllLoop(_, _, _, _, _)
SetAllLoop(h, m, arg, i, roots) ==
  IF i > arg.len THEN Mem(h, m)
  ELSE LET r == GoAppend(h, m, normalizeProvider(h[arg.arr][i]), roots, ZeroProvider)
       IN  SetAllLoop(r.heap, r.slice, arg, i + 1, roots)

\* Manager.SetAll on the backing array of m.providers
SetAllHeap(h, m, arg, roots) == SetAllLoop(h, [m EXCEPT !.len = 0], arg, 1, roots)

\* Providers that hands out m.providers itself
ProvidersHeap_noCopy(h, m, roots) == Mem(h, m)

\* Manager.Providers: make and copy
ProvidersHeap(h, m, roots) ==
  LET a == Fresh(roots)
  IN  Mem([h EXCEPT ![a] = Contents(h, m)], [arr |-> a, len |-> m.len])

\* Manager.Views: make with the capacity of the list, then one append each
ViewsHeap(h, m, roots) ==
  LET a == Fresh(roots)
  IN  Mem([h EXCEPT ![a] = ViewsOf(Contents(h, m))], [arr |-> a, len |-> m.len])

\* NewManager on the heap
RECURSIVE NewManagerHeap(_)
NewManagerHeap(seed) ==
  IF Len(seed) = 0 THEN Mem([a \in Arrays |-> <<>>], NilSlice)
  ELSE LET r == NewManagerHeap(SubSeq(seed, 1, Len(seed) - 1))
           u == UpsertHeap(r.heap, r.slice, seed[Len(seed)], {r.slice.arr})
           t == Settled(u.heap, u.slice, NilSlice, NilSlice)
       IN  Mem(t.heap, t.mslice)

\* a slice in the hands of a caller, with the type of its elements
Held(s, of) == [arr |-> s.arr, len |-> s.len, of |-> of]

\* ----------------------------------------------------------- encoding/json
\* A response body is bytes that are not JSON at all, or a JSON value.
JV(t, v) == [t |-> t, v |-> v]
NotJSON == JV("garbage", 0)
JNull == JV("null", 0)
JStr(s) == JV("str", s)
JNum(n) == JV("num", n)
JArr(a) == JV("arr", a)
JObj(o) == JV("obj", o)

HasKey(o, k) == k \in DOMAIN o
Member(o, k) == IF HasKey(o, k) THEN o[k] ELSE JNull
\* json.Unmarshal accepts a member for a Go field of JSON type ty; null leaves
\* the field at its zero value, any other type is an UnmarshalTypeError
Fits(o, k, ty) == Member(o, k).t \in {ty, "null"}
StrOf(o, k) == IF Member(o, k).t = "str" THEN o[k].v ELSE <<>>
IntOf(o, k) == IF Member(o, k).t = "num" THEN o[k].v ELSE 0

\* ------------------------------------------------------------ package chat
Message(role, content) == [Role |-> role, Content |-> content]
ZeroMessage == Message(<<>>, <<>>)
ZeroChoice == [Index |-> 0, FinishReason |-> <<>>, Message |-> ZeroMessage]
ZeroUsage == [PromptTokens |-> 0, CompletionTokens |-> 0, TotalTokens |-> 0]
ZeroResponse ==
  [ID |-> <<>>, Object |-> <<>>, Created |-> 0, Model |-> <<>>, Choices |-> <<>>,
   Usage |-> ZeroUsage]
CompletionRequest(model, messages, temperature) ==
  [Model |-> model, Messages |-> messages, Temperature |-> temperature]

MessageFits(v) ==
  v.t = "null" \/ (v.t = "obj" /\ Fits(v.v, "role", "str") /\ Fits(v.v, "content", "str"))
DecodeMessage(v) ==
  IF v.t = "obj" THEN Message(StrOf(v.v, "role"), StrOf(v.v, "content")) ELSE ZeroMessage

ChoiceFits(v) ==
  \/ v.t = "null"
  \/ /\ v.t = "obj"
     /\ Fits(v.v, "index", "num")
     /\ Fits(v.v, "finish_reason", "str")
     /\ MessageFits(Member(v.v, "message"))
DecodeChoice(v) ==
  IF v.t = "obj"
  THEN [Index |-> IntOf(v.v, "index"), FinishReason |-> StrOf(v.v, "finish_reason"),
        Message |-> DecodeMessage(Member(v.v, "message"))]
  ELSE ZeroChoice

UsageFits(v) ==
  \/ v.t = "null"
  \/ /\ v.t = "obj"
     /\ Fits(v.v, "prompt_tokens", "num")
     /\ Fits(v.v, "completion_tokens", "num")
     /\ Fits(v.v, "total_tokens", "num")
DecodeUsage(v) ==
  IF v.t = "obj"
  THEN [PromptTokens |-> IntOf(v.v, "prompt_tokens"),
        CompletionTokens |-> IntOf(v.v, "completion_tokens"),
        TotalTokens |-> IntOf(v.v, "total_tokens")]
  ELSE ZeroUsage

ChoicesFit(v) ==
  v.t = "null" \/ (v.t = "arr" /\ \A i \in 1..Len(v.v) : ChoiceFits(v.v[i]))
DecodeChoices(v) ==
  IF v.t = "arr" THEN [i \in 1..Len(v.v) |-> DecodeChoice(v.v[i])] ELSE <<>>

\* json.Unmarshal(respBody, &out) with out a chat.CompletionResponse
UnmarshalCompletionResponse(body) ==
  IF body.t = "garbage" THEN [err |-> TRUE, out |-> ZeroResponse]
  ELSE IF body.t = "null" THEN [err |-> FALSE, out |-> ZeroResponse]
  ELSE IF body.t # "obj" THEN [err |-> TRUE, out |-> ZeroResponse]
  ELSE LET o == body.v
       IN  [err |-> ~ /\ Fits(o, "id", "str")
                      /\ Fits(o, "object", "str")
                      /\ Fits(o, "created", "num")
                      /\ Fits(o, "model", "str")
                      /\ ChoicesFit(Member(o, "choices"))
                      /\ UsageFits(Member(o, "usage")),
            out |-> [ID |-> StrOf(o, "id"), Object |-> StrOf(o, "object"),
                     Created |-> IntOf(o, "created"), Model |-> StrOf(o, "model"),
                     Choices |-> DecodeChoices(Member(o, "choices")),
                     Usage |-> DecodeUsage(Member(o, "usage"))]]

\* json.Marshal(resp) with resp a chat.CompletionResponse
MarshalCompletionResponse(r) ==
  JObj([id |-> JStr(r.ID), object |-> JStr(r.Object), created |-> JNum(r.Created),
        model |-> JStr(r.Model),
        choices |-> JArr([i \in 1..Len(r.Choices) |->
                      JObj([index |-> JNum(r.Choices[i].Index),
                            finish_reason |-> JStr(r.Choices[i].FinishReason),
                            message |-> JObj([role |-> JStr(r.Choices[i].Message.Role),
                                              content |-> JStr(r.Choices[i].Message.Content)])])]),
        usage |-> JObj([prompt_tokens |-> JNum(r.Usage.PromptTokens),
                        completion_tokens |-> JNum(r.Usage.CompletionTokens),
                        total_tokens |-> JNum(r.Usage.TotalTokens)])])

\* json.Unmarshal(body, &ollamaResp)
UnmarshalOllama(body) ==
  LET zero == [Model |-> <<>>, Message |-> ZeroMessage, PromptEvalCount |-> 0, EvalCount |-> 0]
  IN  IF body.t = "garbage" THEN [err |-> TRUE, out |-> zero]
      ELSE IF body.t = "null" THEN [err |-> FALSE, out |-> zero]
      ELSE IF body.t # "obj" THEN [err |-> TRUE, out |-> zero]
      ELSE LET o == body.v
           IN  [err |-> ~ /\ Fits(o, "model", "str")
                          /\ MessageFits(Member(o, "message"))
                          /\ Fits(o, "prompt_eval_count", "num")
                          /\ Fits(o, "eval_count", "num"),
                out |-> [Model |-> StrOf(o, "model"),
                         Message |-> DecodeMessage(Member(o, "message")),
                         PromptEvalCount |-> IntOf(o, "prompt_eval_count"),
                         EvalCount |-> IntOf(o, "eval_count")]]

\* the "text" strings of one content array, in array order
RECURSIVE ContentTexts(_)
ContentTexts(content) ==
  IF Len(content) = 0 THEN <<>>
  ELSE LET c == content[1]
           t == IF c.t = "obj" /\ Member(c.v, "text").t = "str" THEN <<c.v["text"].v>> ELSE <<>>
       IN  t \o ContentTexts(Tail(content))

\* the chunks collected from the output array, in array order
RECURSIVE OutputChunks(_)
OutputChunks(out) ==
  IF Len(out) = 0 THEN <<>>
  ELSE LET item    == out[1]
           content == IF item.t = "obj" /\ Member(item.v, "content").t = "arr"
                      THEN item.v["content"].v ELSE <<>>
       IN  ContentTexts(content) \o OutputChunks(Tail(out))

extractChatGPTOutputText(body) ==
  LET simpleErr  == body.t = "garbage"
                    \/ body.t \notin {"obj", "null"}
                    \/ (body.t = "obj" /\ ~Fits(body.v, "output_text", "str"))
      outputText == IF body.t = "obj" THEN StrOf(body.v, "output_text") ELSE <<>>
      rawErr     == body.t \notin {"obj", "null"}
      raw        == IF body.t = "obj" THEN body.v ELSE <<>>
  IN  IF ~simpleErr /\ TrimSpace(outputText) # <<>> THEN outputText
      ELSE IF rawErr THEN <<>>
      ELSE IF Member(raw, "output_text").t = "str" THEN raw["output_text"].v
      ELSE IF Member(raw, "output").t = "arr"
           THEN TrimSpace(Join(OutputChunks(raw["output"].v), <<"\n">>))
      ELSE <<>>

\* ----------------------------------------------------------- remote.Client
StatusOK == 200
StatusBadRequest == 400
StatusBadGateway == 502

joinURL(baseURL, suffix) ==
  LET base == TrimRight(TrimSpace(baseURL), {"/"})
  IN  IF base = <<>>
      THEN [url |-> <<>>, err |-> "remote base_url is empty"]
      ELSE [url |-> base \o suffix, err |-> ""]

\* what the upstream does with one request: the transport fails (ok = FALSE),
\* or it answers with a status and a body
Upstream(ok, status, body) == [ok |-> ok, status |-> status, body |-> body]

\* Header that prefers the api key to the access token
Header_apiKeyFirst(provider) ==
  LET token   == TrimSpace(provider.AccessToken)
      apiKey  == TrimSpace(provider.APIKey)
      content == [h \in {"Content-Type"} |-> S_appJSON]
      auth    == IF apiKey # <<>> THEN [h \in {"Authorization"} |-> S_Bearer \o apiKey]
                 ELSE IF token # <<>> THEN [h \in {"Authorization"} |-> S_Bearer \o token]
                 ELSE [h \in {} |-> <<>>]
      account == IF TrimSpace(provider.AccountID) # <<>>
                 THEN [h \in {"chatgpt-account-id"} |-> provider.AccountID]
                 ELSE [h \in {} |-> <<>>]
  IN  content @@ auth @@ account

\* the headers postJSON sets on the outbound request
Header(provider) ==
  LET token   == TrimSpace(provider.AccessToken)
      apiKey  == TrimSpace(provider.APIKey)
      content == [h \in {"Content-Type"} |-> S_appJSON]
      auth    == IF token # <<>> THEN [h \in {"Authorization"} |-> S_Bearer \o token]
                 ELSE IF apiKey # <<>> THEN [h \in {"Authorization"} |-> S_Bearer \o apiKey]
                 ELSE [h \in {} |-> <<>>]
      account == IF TrimSpace(provider.AccountID) # <<>>
                 THEN [h \in {"chatgpt-account-id"} |-> provider.AccountID]
                 ELSE [h \in {} |-> <<>>]
  IN  content @@ auth @@ account

\* the ([]byte, int, error) results of the client, with the outbound calls made
ClientResult(calls, body, status, err) ==
  [calls |-> calls, body |-> body, status |-> status, err |-> err]
ClientError(calls, err) == ClientResult(calls, NotJSON, 0, err)

postJSON(provider, url, payload, upstream) ==
  LET call == [url |-> url, header |-> Header(provider), payload |-> payload]
  IN  IF ~upstream.ok THEN ClientError(<<call>>, "transport")
      ELSE ClientResult(<<call>>, upstream.body, upstream.status, "")

chatOpenAICompatible(provider, req, model, upstream) ==
  LET j       == joinURL(provider.BaseURL, S_v1ChatCompletions)
      payload == IF req.Temperature # 0
                 THEN [model |-> model, messages |-> req.Messages,
                       temperature |-> req.Temperature]
                 ELSE [model |-> model, messages |-> req.Messages]
  IN  IF j.err # "" THEN ClientError(<<>>, j.err)
      ELSE postJSON(provider, j.url, payload, upstream)

chatChatGPT(provider, req, model, upstream, now) ==
  LET j       == joinURL(provider.BaseURL, S_codexResponses)
      input   == [i \in 1..Len(req.Messages) |->
                    [role |-> req.Messages[i].Role,
                     content |-> <<[type |-> "input_text", text |-> req.Messages[i].Content]>>]]
      payload == [model |-> model, input |-> input, stream |-> FALSE]
      r       == postJSON(provider, j.url, payload, upstream)
      resp    == [ID |-> S_idChatGPT, Object |-> S_chatCompletion, Created |-> now,
                  Model |-> model,
                  Choices |-> <<[Index |-> 0, FinishReason |-> S_stop,
                                 Message |-> Message(S_assistant, extractChatGPTOutputText(r.body))]>>,
                  Usage |-> ZeroUsage]
  IN  IF j.err # "" THEN ClientError(<<>>, j.err)
      ELSE IF r.err # "" THEN ClientError(r.calls, r.err)
      ELSE IF r.status >= 400 THEN r
      ELSE ClientResult(r.calls, MarshalCompletionResponse(resp), StatusOK, "")

chatOllama(provider, req, model, upstream, now) ==
  LET j       == joinURL(provider.BaseURL, S_apiChat)
      payload == [model |-> model, messages |-> req.Messages, stream |-> FALSE]
      r       == postJSON(provider, j.url, payload, upstream)
      d       == UnmarshalOllama(r.body)
      usage   == [PromptTokens |-> d.out.PromptEvalCount,
                  CompletionTokens |-> d.out.EvalCount,
                  TotalTokens |-> d.out.PromptEvalCount + d.out.EvalCount]
      resp    == [ID |-> S_idOllama, Object |-> S_chatCompletion, Created |-> now,
                  Model |-> d.out.Model,
                  Choices |-> <<[Index |-> 0, FinishReason |-> S_stop,
                                 Message |-> Message(d.out.Message.Role, d.out.Message.Content)]>>,
                  Usage |-> usage]
  IN  IF j.err # "" THEN ClientError(<<>>, j.err)
      ELSE IF r.err # "" THEN ClientError(r.calls, r.err)
      ELSE IF r.status >= 400 THEN r
      ELSE IF d.err THEN ClientError(r.calls, "decode ollama response")
      ELSE ClientResult(r.calls, MarshalCompletionResponse(resp), StatusOK, "")

\* ChatCompletions that tries the request a second time when the first fails
ChatCompletions_retry(provider, req, model, upstream, now) ==
  LET r == IF provider.Kind = S_ollama THEN chatOllama(provider, req, model, upstream, now)
           ELSE IF provider.Kind = S_chatgpt THEN chatChatGPT(provider, req, model, upstream, now)
           ELSE chatOpenAICompatible(provider, req, model, upstream)
  IN  IF r.err # "" THEN [r EXCEPT !.calls = r.calls \o r.calls] ELSE r

ChatCompletions(provider, req, model, upstream, now) ==
  IF provider.Kind = S_ollama THEN chatOllama(provider, req, model, upstream, now)
  ELSE IF provider.Kind = S_chatgpt THEN chatChatGPT(provider, req, model, upstream, now)
  ELSE chatOpenAICompatible(provider, req, model, upstream)

\* ------------------------------------------------------------ rules.Store
Rule(contains, reply) == [Contains |-> contains, Reply |-> reply]

StoreMatch(ruleList, content) ==
  LET lowered == ToLower(content)
      hits    == {i \in 1..Len(ruleList) : Contains(lowered, ToLower(ruleList[i].Contains))}
  IN  IF hits = {} THEN [reply |-> <<>>, ok |-> FALSE]
      ELSE [reply |-> ruleList[SetMin(hits)].Reply, ok |-> TRUE]

\* ------------------------------------------------------------ api.Handlers
chooseModel(model) == IF TrimSpace(model) = <<>> THEN S_gptMock1 ELSE model

RECURSIVE ContentLen(_)
ContentLen(messages) ==
  IF Len(messages) = 0 THEN 0 ELSE Len(messages[1].Content) + ContentLen(Tail(messages))

estimateTokens(messages) ==
  LET total == ContentLen(messages)
  IN  IF total = 0 THEN 0 ELSE IF total < 4 THEN 1 ELSE total \div 4

\* a Go error: the message, the wrapped cause and the number formatted into it
Error(msg, cause, n) == [msg |-> msg, cause |-> cause, n |-> n]
NoError == Error("", "", 0)

\* the (CompletionResponse, int, error) results of runCompletion, with the
\* calls it made to its collaborators, in order
Completion(resp, status, err, trace) ==
  [resp |-> resp, status |-> status, err |-> err, trace |-> trace]
Call(callee, arg) == [callee |-> callee, arg |-> arg]
UpstreamCalls(calls) == [i \in 1..Len(calls) |-> Call("Upstream", calls[i])]

\* remoteResult that lets status 400 through
remoteResult_above400(r) ==
  IF r.err # ""
  THEN Completion(ZeroResponse, StatusBadGateway, Error("remote request failed", r.err, 0), <<>>)
  ELSE IF r.status > 400
  THEN Completion(ZeroResponse, r.status, Error("remote returned status", "", r.status), <<>>)
  ELSE LET d == UnmarshalCompletionResponse(r.body)
       IN  IF d.err
           THEN Completion(ZeroResponse, StatusBadGateway, Error("invalid remote response", "", 0), <<>>)
           ELSE Completion(d.out, StatusOK, NoError, <<>>)

\* runCompletion after ChatCompletions returned r
remoteResult(r) ==
  IF r.err # ""
  THEN Completion(ZeroResponse, StatusBadGateway, Error("remote request failed", r.err, 0), <<>>)
  ELSE IF r.status >= 400
  THEN Completion(ZeroResponse, r.status, Error("remote returned status", "", r.status), <<>>)
  ELSE LET d == UnmarshalCompletionResponse(r.body)
       IN  IF d.err
           THEN Completion(ZeroResponse, StatusBadGateway, Error("invalid remote response", "", 0), <<>>)
           ELSE Completion(d.out, StatusOK, NoError, <<>>)

\* mockResult that looks the rule up with the first message
mockResult_firstMessage(ruleList, req, now) ==
  LET last   == req.Messages[1].Content
      m      == StoreMatch(ruleList, last)
      reply  == IF m.ok THEN m.reply ELSE S_fallbackReply
      prompt == estimateTokens(req.Messages)
      compl  == estimateTokens(<<Message(S_assistant, reply)>>)
      resp   == [ID |-> S_idMock, Object |-> S_chatCompletion, Created |-> now,
                 Model |-> chooseModel(req.Model),
                 Choices |-> <<[Index |-> 0, FinishReason |-> S_stop,
                                Message |-> Message(S_assistant, reply)]>>,
                 Usage |-> [PromptTokens |-> prompt, CompletionTokens |-> compl,
                            TotalTokens |-> prompt + compl]]
  IN  Completion(resp, StatusOK, NoError, <<Call("Rules", last)>>)

\* runCompletion when no provider matched
mockResult(ruleList, req, now) ==
  LET last   == req.Messages[Len(req.Messages)].Content
      m      == StoreMatch(ruleList, last)
      reply  == IF m.ok THEN m.reply ELSE S_fallbackReply
      prompt == estimateTokens(req.Messages)
      compl  == estimateTokens(<<Message(S_assistant, reply)>>)
      resp   == [ID |-> S_idMock, Object |-> S_chatCompletion, Created |-> now,
                 Model |-> chooseModel(req.Model),
                 Choices |-> <<[Index |-> 0, FinishReason |-> S_stop,
                                Message |-> Message(S_assistant, reply)]>>,
                 Usage |-> [PromptTokens |-> prompt, CompletionTokens |-> compl,
                            TotalTokens |-> prompt + compl]]
  IN  Completion(resp, StatusOK, NoError, <<Call("Rules", last)>>)

\* runCompletion that looks the provider up before it checks the messages
runCompletion_matchFirst(list, ruleList, req, upstream, now) ==
  LET m == MatchIn(list, req.Model)
  IN  IF Len(req.Messages) = 0
      THEN Completion(ZeroResponse, StatusBadRequest,
                      Error("messages must not be empty", "", 0), <<Call("Match", req.Model)>>)
      ELSE IF m.found
      THEN LET r == ChatCompletions(m.provider, req, m.model, upstream, now)
           IN  [remoteResult(r) EXCEPT !.trace = <<Call("Match", req.Model)>> \o UpstreamCalls(r.calls)]
      ELSE [mockResult(ruleList, req, now) EXCEPT !.trace = <<Call("Match", req.Model)>> \o @]

runCompletion(list, ruleList, req, upstream, now) ==
  IF Len(req.Messages) = 0
  THEN Completion(ZeroResponse, StatusBadRequest,
                  Error("messages must not be empty", "", 0), <<>>)
  ELSE LET m == MatchIn(list, req.Model)
       IN  IF m.found
           THEN LET r == ChatCompletions(m.provider, req, m.model, upstream, now)
                IN  [remoteResult(r) EXCEPT !.trace = <<Call("Match", req.Model)>> \o UpstreamCalls(r.calls)]
           ELSE [mockResult(ruleList, req, now) EXCEPT !.trace = <<Call("Match", req.Model)>> \o @]

\* ------------------------------------------------------------------ inputs
S_u == <<"h", "t", "t", "p", ":", "/", "/", "u">>
S_v == <<"h", "t", "t", "p", ":", "/", "/", "v">>
S_k1 == <<"k", "1">>
S_k2 == <<"k", "2">>
S_t1 == <<"t", "1">>
S_a1 == <<"a", "1">>
S_all == <<"a", "l", "l">>
S_b == <<"b">>
S_OllamaPadded == <<" ", "O", "l", "l", "a", "m", "a", " ">>
S_codexPrefixPadded == <<" ", "c", "o", "d", "e", "x", "/", " ">>
S_gpt5 == <<"g", "p", "t", "-", "5">>
S_codexGpt5 == <<"c", "o", "d", "e", "x", "/", "g", "p", "t", "-", "5">>
S_otherGpt5 == <<"o", "t", "h", "e", "r", "/", "g", "p", "t", "-", "5">>
S_codexGpt5Padded == <<" ", "c", "o", "d", "e", "x", "/", "g", "p", "t", "-", "5", " ">>
S_codexCodexX == <<"c", "o", "d", "e", "x", "/", "c", "o", "d", "e", "x", "/", "x">>
S_codexX == <<"c", "o", "d", "e", "x", "/", "x">>
S_ollamaLlama == <<"o", "l", "l", "a", "m", "a", "/", "l", "l", "a", "m", "a", "3", ".", "1">>
S_llama == <<"l", "l", "a", "m", "a", "3", ".", "1">>
S_o == <<"h", "t", "t", "p", ":", "/", "/", "o">>
S_otherPrefix == <<"o", "t", "h", "e", "r", "/">>
S_codexCodexXPadded == <<" ", "c", "o", "d", "e", "x", "/", "c", "o", "d", "e", "x", "/", "x", " ">>
S_HelloThere == <<"H", "e", "l", "l", "o", " ", "t", "h", "e", "r", "e">>
S_fromCodex == <<"f", "r", "o", "m", " ", "c", "o", "d", "e", "x">>
S_fromOllama == <<"f", "r", "o", "m", " ", "o", "l", "l", "a", "m", "a">>
S_fromChatGPT == <<"f", "r", "o", "m", " ", "c", "h", "a", "t", "g", "p", "t">>
S_codex1 == <<"c", "o", "d", "e", "x", "-", "1">>
S_hi == <<"h", "i">>
S_zz == <<"z", "z">>
S_WEATHER == <<"W", "h", "a", "t", " ", "W", "E", "A", "T", "H", "E", "R", "?">>
S_Weather == <<"W", "e", "a", "t", "h", "e", "r">>
S_pizzaReply == <<"M", "o", "c", "k", " ", "s", "a", "y", "s", ":", " ", "p", "i", "z", "z", "a", " ", "t", "i", "m", "e", ".">>
S_chatgptGpt5 == <<"c", "h", "a", "t", "g", "p", "t", "/", "g", "p", "t", "-", "5">>
S_x == <<"x">>
S_FooPadded == <<" ", "F", "o", "o", " ">>
S_t1Padded == <<" ", "t", "1", " ">>
S_a1Padded == <<" ", "a", "1", " ">>

\* the provider of TestCodexProviderProxy / CHATMOCK_CODEX_* environment
P_codex == Provider(S_codex, S_codex, S_u, S_k1, <<>>, <<>>, S_codexPrefix, FALSE)
\* the same provider with another api key
P_codexK2 == Provider(S_codex, S_codex, S_u, S_k2, <<>>, <<>>, S_codexPrefix, FALSE)
\* no name, no base url, no credentials
P_codexNoURL == Provider(<<>>, S_codex, <<>>, <<>>, <<>>, <<>>, S_codexPrefix, FALSE)
\* kind and prefix left blank, whitespace-only api key, route_all
P_all == Provider(S_all, <<>>, S_v, S_sp, S_t1, <<>>, <<>>, TRUE)
\* padded upper-case kind, whitespace-only base url, route_all
P_ollamaBlank == Provider(S_ollama, S_OllamaPadded, S_sp, <<>>, <<>>, <<>>, <<>>, TRUE)
\* chatgpt kind with everything but the credentials left blank
P_chatgpt == Provider(<<>>, S_chatgpt, <<>>, <<>>, S_t1, S_a1, <<>>, FALSE)
\* a second provider for codex/ models, prefix padded with spaces
P_second == Provider(S_b, S_openai, S_v, <<>>, <<>>, S_a1, S_codexPrefixPadded, FALSE)

\* a kind that no translator is written for; name and prefix left blank
P_foo == Provider(<<>>, S_FooPadded, S_u, <<>>, <<>>, <<>>, S_sp, FALSE)

\* prefix "/": the name derived from it is empty
P_slashA == Provider(<<>>, <<>>, S_u, S_k1, <<>>, <<>>, S_slash, FALSE)

ProviderInputs ==
  <<P_codex, P_codexK2, P_codexNoURL, P_all, P_ollamaBlank, P_chatgpt, P_second, P_foo,
    P_slashA>>

SetAllPool == {P_codex, P_second, P_all}
SetAllInputs == UNION {[1..n -> SetAllPool] : n \in 0..MaxLen}

ModelInputs ==
  <<S_codexGpt5, S_otherGpt5, S_codexGpt5Padded, S_codexCodexX, S_ollamaLlama,
    S_chatgptGpt5, <<>> >>

\* the provider of TestOllamaProviderProxy, with route_all switched on
P_ollama == Provider(S_ollama, S_ollama, S_o, <<>>, <<>>, <<>>, S_ollamaPrefix, TRUE)
\* a base url that is only a slash
P_slash == Provider(S_b, <<>>, S_slash, <<>>, <<>>, <<>>, S_otherPrefix, FALSE)

\* access token and account id padded with spaces, next to an api key
P_both == Provider(S_x, S_openai, S_v, S_k2, S_t1Padded, S_a1Padded, S_otherPrefix, FALSE)

RunProviders == <<P_codex, P_ollama, P_chatgpt, P_slash, P_both>>

Requests ==
  <<CompletionRequest(S_codexGpt5, <<>>, 0),
    CompletionRequest(S_codexCodexXPadded, <<Message(S_user, S_hi)>>, 1),
    CompletionRequest(<<>>, <<Message(S_user, S_HelloThere)>>, 0),
    CompletionRequest(S_ollamaLlama,
                      <<Message(S_user, S_weather), Message(S_assistant, S_hi),
                        Message(S_user, S_zz)>>, 0),
    CompletionRequest(S_chatgptGpt5, <<Message(S_user, S_hi)>>, 0),
    CompletionRequest(S_otherGpt5, <<Message(S_user, S_WEATHER)>>, 0)>>

\* the body of TestCodexProviderProxy
B_codex ==
  JObj([id |-> JStr(S_codex1), object |-> JStr(S_chatCompletion),
        choices |-> JArr(<<JObj([index |-> JNum(0), finish_reason |-> JStr(S_stop),
                                 message |-> JObj([role |-> JStr(S_assistant),
                                                   content |-> JStr(S_fromCodex)])])>>),
        usage |-> JObj([prompt_tokens |-> JNum(1), completion_tokens |-> JNum(1),
                        total_tokens |-> JNum(2)])])
\* the body of TestOllamaProviderProxy
B_ollama ==
  JObj([model |-> JStr(S_llama),
        message |-> JObj([role |-> JStr(S_assistant), content |-> JStr(S_fromOllama)]),
        prompt_eval_count |-> JNum(2), eval_count |-> JNum(3)])
\* the body of TestChatGPTProviderProxy
B_chatgpt ==
  JObj([output |-> JArr(<<JObj([content |-> JArr(<<JObj([text |-> JStr(S_fromChatGPT)])>>)])>>)])
B_outputText == JObj([output_text |-> JStr(S_hi)])
B_emptyObject == JObj(<<>>)
B_array == JArr(<<>>)
\* {"model": 5}
B_badModel == JObj([model |-> JNum(5)])
\* {"output":[{"content":[{"text":" "},{"type":"x"},{"text":"x"}]},{"content":[{"text":"b"}]}]}
B_twoItems ==
  JObj([output |-> JArr(<<JObj([content |-> JArr(<<JObj([text |-> JStr(S_sp)]),
                                                    JObj([type |-> JStr(S_x)]),
                                                    JObj([text |-> JStr(S_x)])>>)]),
                          JObj([content |-> JArr(<<JObj([text |-> JStr(S_b)])>>)])>>)])
\* {"output_text":"","output":[{"content":[{"text":"from chatgpt"}]}]}
B_emptyOutputText ==
  JObj([output_text |-> JStr(<<>>),
        output |-> JArr(<<JObj([content |-> JArr(<<JObj([text |-> JStr(S_fromChatGPT)])>>)])>>)])
\* a canonical body whose usage has prompt_tokens only
B_partialUsage ==
  JObj([id |-> JStr(S_codex1), object |-> JStr(S_chatCompletion),
        choices |-> JArr(<<JObj([index |-> JNum(0), finish_reason |-> JStr(S_stop),
                                 message |-> JObj([role |-> JStr(S_assistant),
                                                   content |-> JStr(S_fromCodex)])])>>),
        usage |-> JObj([prompt_tokens |-> JNum(3)])])

Upstreams ==
  <<Upstream(FALSE, 0, NotJSON),
    Upstream(TRUE, 200, B_codex),
    Upstream(TRUE, 200, B_ollama),
    Upstream(TRUE, 200, B_chatgpt),
    Upstream(TRUE, 200, B_outputText),
    Upstream(TRUE, 200, B_emptyObject),
    Upstream(TRUE, 200, B_array),
    Upstream(TRUE, 200, B_badModel),
    Upstream(TRUE, 200, B_partialUsage),
    Upstream(TRUE, 200, B_twoItems),
    Upstream(TRUE, 200, B_emptyOutputText),
    Upstream(TRUE, 200, NotJSON),
    Upstream(TRUE, 302, B_codex),
    Upstream(TRUE, 400, B_emptyObject),
    Upstream(TRUE, 404, NotJSON)>>

\* time.Now().Unix()
Times == {1762000000}

\* the rules NewServer seeds the store with
SeedRules == <<Rule(S_hello, S_helloReply), Rule(S_weather, S_weatherReply)>>

RuleInputs ==
  <<SeedRules, <<Rule(S_Weather, S_pizzaReply), Rule(S_weather, S_weatherReply)>> >>

\* what initialProvidersFromEnv can hand to NewManager: nothing, or the codex entry
Seeds == {<<>>, <<P_codex>>}

\* ------------------------------------------------------------------- state
VARIABLES
  providers,   \* Manager.providers
  rules,       \* Store.rules
  op,          \* the operation that ran last, with its arguments
  res,         \* what that operation returned
  mu,          \* Manager.mu: the writer that owns it and the readers that hold it
  pc,          \* where each concurrent caller of the registry stands
  call,        \* the method each caller is in, with its arguments
  obs,         \* what each reader has read under its read lock
  committed,   \* history: the list as the last completed write left it
  heap,        \* the backing arrays of the slices below
  mslice,      \* the slice header of Manager.providers
  held,        \* the list a caller got from Providers or Views and still holds
  arg          \* the slice a caller passed to SetAll and still holds

vars == <<providers, rules, op, res, mu, pc, call, obs, committed, heap, mslice, held, arg>>
seqVars == <<rules, op, res>>
rwVars == <<mu, pc, call, obs, committed>>
aliasVars == <<heap, mslice, held, arg>>

Procs == 1..NumProcs

Op(name, provs, model) == [name |-> name, provs |-> provs, model |-> model]
NoRes == [found |-> FALSE, provider |-> ZeroProvider, model |-> <<>>, list |-> <<>>]

\* what construction leaves besides the registry
InitRest ==
  /\ rules = SeedRules
  /\ mu = [w |-> 0, r |-> {}]
  /\ pc = [p \in Procs |-> "idle"]
  /\ call = [p \in Procs |-> Op("", <<>>, <<>>)]
  /\ obs = [p \in Procs |-> NoRes]
  /\ committed = providers
  /\ held = Held(NilSlice, "Provider")
  /\ arg = NilSlice
  /\ op = Op("NewManager", <<>>, <<>>)
  /\ res = NoRes

\* NewManager(seed), the registry kept as the list providers; the backing
\* arrays are left out of the specifications that do not look at them
Init ==
  /\ providers \in {NewManagerOf(seed) : seed \in Seeds}
  /\ heap = [a \in Arrays |-> <<>>]
  /\ mslice = NilSlice
  /\ InitRest

\* NewManager(seed), with the registry on its backing array
InitAlias ==
  /\ \E seed \in Seeds :
        /\ providers = NewManagerOf(seed)
        /\ heap = NewManagerHeap(seed).heap
        /\ mslice = NewManagerHeap(seed).slice
  /\ InitRest

Upsert(provider) ==
  /\ Len(UpsertIn(providers, provider)) <= MaxLen
  /\ providers' = UpsertIn(providers, provider)
  /\ op' = Op("Upsert", <<provider>>, <<>>)
  /\ res' = NoRes
  /\ committed' = providers'
  /\ UNCHANGED <<rules, mu, pc, call, obs>>
  /\ UNCHANGED aliasVars

SetAll(list) ==
  /\ providers' = SetAllOf(list)
  /\ op' = Op("SetAll", list, <<>>)
  /\ res' = NoRes
  /\ committed' = providers'
  /\ UNCHANGED <<rules, mu, pc, call, obs>>
  /\ UNCHANGED aliasVars

Views ==
  /\ res' = [NoRes EXCEPT !.list = ViewsOf(providers)]
  /\ op' = Op("Views", <<>>, <<>>)
  /\ UNCHANGED <<providers, rules, rwVars>>
  /\ UNCHANGED aliasVars

Providers ==
  /\ res' = [NoRes EXCEPT !.list = providers]
  /\ op' = Op("Providers", <<>>, <<>>)
  /\ UNCHANGED <<providers, rules, rwVars>>
  /\ UNCHANGED aliasVars

Match(requestedModel) ==
  /\ LET r == MatchIn(providers, requestedModel)
     IN  res' = [found |-> r.found, provider |-> r.provider, model |-> r.model, list |-> <<>>]
  /\ op' = Op("Match", <<>>, requestedModel)
  /\ UNCHANGED <<providers, rules, rwVars>>
  /\ UNCHANGED aliasVars

\* Store.Set, reached through PUT /v1/rules
SetRules(items) ==
  /\ rules' = items
  /\ op' = Op("SetRules", <<>>, <<>>)
  /\ res' = NoRes
  /\ UNCHANGED <<providers, rwVars>>
  /\ UNCHANGED aliasVars

\* one request through Handlers.runCompletion; upstream is what the matched
\* provider's server does with the outbound call, if one is made
RunCompletion(req, upstream, now) ==
  /\ res' = runCompletion(providers, rules, req, upstream, now)
  /\ op' = [name |-> "RunCompletion", req |-> req, upstream |-> upstream, now |-> now]
  /\ UNCHANGED <<providers, rules, rwVars>>
  /\ UNCHANGED aliasVars

Next ==
  \/ \E i \in DOMAIN ProviderInputs : Upsert(ProviderInputs[i])
  \/ \E list \in SetAllInputs : SetAll(list)
  \/ Views
  \/ Providers
  \/ \E i \in DOMAIN ModelInputs : Match(ModelInputs[i])

Spec == Init /\ [][Next]_vars

\* the orchestrator on top of the registry and the rule store
NextRun ==
  \/ \E i \in DOMAIN RunProviders : Upsert(RunProviders[i])
  \/ \E i \in DOMAIN ModelInputs : Match(ModelInputs[i])
  \/ \E i \in DOMAIN RuleInputs : SetRules(RuleInputs[i])
  \/ \E i \in DOMAIN Requests, j \in DOMAIN Upstreams, now \in Times :
        RunCompletion(Requests[i], Upstreams[j], now)

SpecRun == Init /\ [][NextRun]_vars

\* ------------------------------------------- the registry under Manager.mu
\* Concurrent callers of the Manager. Every method is split at its lock
\* operations; SetAll is further split into the truncation and one step per
\* append, which is what a reader would see without the lock.
RWProviders == <<P_codex, P_all>>
RWLists == << <<P_all, P_codex>>, <<P_codex>> >>
RWModels == <<S_codexGpt5>>

WriterCS == {"Upsert", "SetAllTrunc", "SetAllAppend", "Unlock"}
ReaderCS == {"Read", "RUnlock"}

Goto(p, label) == pc' = [pc EXCEPT ![p] = label]

CallUpsert(p, provider) ==
  /\ pc[p] = "idle"
  /\ call' = [call EXCEPT ![p] = Op("Upsert", <<provider>>, <<>>)]
  /\ Goto(p, "Lock")
  /\ UNCHANGED <<providers, seqVars, mu, obs, committed>>
  /\ UNCHANGED aliasVars

CallSetAll(p, list) ==
  /\ pc[p] = "idle"
  /\ call' = [call EXCEPT ![p] = Op("SetAll", list, <<>>)]
  /\ Goto(p, "Lock")
  /\ UNCHANGED <<providers, seqVars, mu, obs, committed>>
  /\ UNCHANGED aliasVars

CallRead(p, name, requestedModel) ==
  /\ pc[p] = "idle"
  /\ call' = [call EXCEPT ![p] = Op(name, <<>>, requestedModel)]
  /\ Goto(p, "RLock")
  /\ UNCHANGED <<providers, seqVars, mu, obs, committed>>
  /\ UNCHANGED aliasVars

\* RLock that does not wait for the writer
CanRLock_always == TRUE

\* sync.RWMutex: RLock goes through unless a writer owns the mutex
CanRLock == mu.w = 0

\* m.mu.Lock(), first half: take the writers' mutex and announce the writer;
\* from here on new readers wait
LockBegin(p) ==
  /\ pc[p] = "Lock"
  /\ mu.w = 0
  /\ mu' = [mu EXCEPT !.w = p]
  /\ Goto(p, "LockWait")
  /\ UNCHANGED <<providers, seqVars, call, obs, committed>>
  /\ UNCHANGED aliasVars

\* m.mu.Lock(), second half: the readers that were in have left
LockAcquire(p) ==
  /\ pc[p] = "LockWait"
  /\ mu.r = {}
  /\ Goto(p, IF call[p].name = "Upsert" THEN "Upsert" ELSE "SetAllTrunc")
  /\ UNCHANGED <<providers, seqVars, mu, call, obs, committed>>
  /\ UNCHANGED aliasVars

\* the body of Upsert
UpsertBody(p) ==
  /\ pc[p] = "Upsert"
  /\ providers' = UpsertIn(providers, call[p].provs[1])
  /\ Goto(p, "Unlock")
  /\ UNCHANGED <<seqVars, mu, call, obs, committed>>
  /\ UNCHANGED aliasVars

\* m.providers = m.providers[:0]
SetAllTruncate(p) ==
  /\ pc[p] = "SetAllTrunc"
  /\ providers' = <<>>
  /\ Goto(p, IF Len(call[p].provs) = 0 THEN "Unlock" ELSE "SetAllAppend")
  /\ UNCHANGED <<seqVars, mu, call, obs, committed>>
  /\ UNCHANGED aliasVars

\* one round of the loop of SetAll
SetAllAppend(p) ==
  /\ pc[p] = "SetAllAppend"
  /\ providers' = Append(providers, normalizeProvider(call[p].provs[Len(providers) + 1]))
  /\ Goto(p, IF Len(providers') = Len(call[p].provs) THEN "Unlock" ELSE "SetAllAppend")
  /\ UNCHANGED <<seqVars, mu, call, obs, committed>>
  /\ UNCHANGED aliasVars

\* the deferred m.mu.Unlock()
Unlock(p) ==
  /\ pc[p] = "Unlock"
  /\ mu' = [mu EXCEPT !.w = 0]
  /\ committed' = providers
  /\ Goto(p, "idle")
  /\ UNCHANGED <<providers, seqVars, call, obs>>
  /\ UNCHANGED aliasVars

\* m.mu.RLock()
RLock(p) ==
  /\ pc[p] = "RLock"
  /\ CanRLock
  /\ mu' = [mu EXCEPT !.r = @ \cup {p}]
  /\ Goto(p, "Read")
  /\ UNCHANGED <<providers, seqVars, call, obs, committed>>
  /\ UNCHANGED aliasVars

\* what the reading method named name returns on list
ReadOf(name, list, requestedModel) ==
  IF name = "Match"
  THEN LET r == MatchIn(list, requestedModel)
       IN  [found |-> r.found, provider |-> r.provider, model |-> r.model, list |-> <<>>]
  ELSE IF name = "Views" THEN [NoRes EXCEPT !.list = ViewsOf(list)]
  ELSE [NoRes EXCEPT !.list = list]

\* the body of Match, Providers or Views
Read(p) ==
  /\ pc[p] = "Read"
  /\ obs' = [obs EXCEPT ![p] = ReadOf(call[p].name, providers, call[p].model)]
  /\ Goto(p, "RUnlock")
  /\ UNCHANGED <<providers, seqVars, mu, call, committed>>
  /\ UNCHANGED aliasVars

\* the deferred m.mu.RUnlock(); the method returns what it read
RUnlock(p) ==
  /\ pc[p] = "RUnlock"
  /\ mu' = [mu EXCEPT !.r = @ \ {p}]
  /\ obs' = [obs EXCEPT ![p] = NoRes]
  /\ Goto(p, "idle")
  /\ UNCHANGED <<providers, seqVars, call, committed>>
  /\ UNCHANGED aliasVars

NextRW ==
  \E p \in Procs :
     \/ \E i \in DOMAIN RWProviders : CallUpsert(p, RWProviders[i])
     \/ \E i \in DOMAIN RWLists : CallSetAll(p, RWLists[i])
     \/ \E i \in DOMAIN RWModels : CallRead(p, "Match", RWModels[i])
     \/ CallRead(p, "Providers", <<>>)
     \/ CallRead(p, "Views", <<>>)
     \/ LockBegin(p)
     \/ LockAcquire(p)
     \/ UpsertBody(p)
     \/ SetAllTruncate(p)
     \/ SetAllAppend(p)
     \/ Unlock(p)
     \/ RLock(p)
     \/ Read(p)
     \/ RUnlock(p)

SpecRW == Init /\ [][NextRW]_vars

\* --------------------------------------------- the registry and its callers
\* One caller of the Manager that keeps the list it was handed and the slice
\* it passed to SetAll, and writes to them afterwards. The registry is the
\* slice m.providers on its backing array; providers is what that slice holds.
AliasProviders == <<P_codex, P_all>>
AliasLists == << <<>>, <<P_all>>, <<P_codex, P_all>> >>
\* what the caller writes into a list it holds
Scribble == P_second

Roots == {mslice.arr, held.arr, arg.arr}

\* the lists as their holders read them
HeldList == Contents(heap, held)
ArgList == Contents(heap, arg)

HeapUpsert(provider) ==
  /\ Len(UpsertIn(providers, provider)) <= MaxLen
  /\ LET r == UpsertHeap(heap, mslice, provider, Roots)
         t == Settled(r.heap, r.slice, held, arg)
     IN  /\ heap' = t.heap /\ mslice' = t.mslice /\ held' = t.held /\ arg' = t.arg
         /\ providers' = Contents(r.heap, r.slice)
  /\ op' = Op("Upsert", <<provider>>, <<>>)
  /\ res' = NoRes
  /\ UNCHANGED <<rules, rwVars>>

\* the caller builds the slice, SetAll runs on it, the caller keeps the slice
HeapSetAll(list) ==
  /\ LET a == Literal(heap, list, {mslice.arr, held.arr})
         r == SetAllHeap(a.heap, mslice, a.slice, {held.arr, a.slice.arr})
         t == Settled(r.heap, r.slice, held, a.slice)
     IN  /\ heap' = t.heap /\ mslice' = t.mslice /\ held' = t.held /\ arg' = t.arg
         /\ providers' = Contents(r.heap, r.slice)
  /\ op' = Op("SetAll", list, <<>>)
  /\ res' = NoRes
  /\ UNCHANGED <<rules, rwVars>>

HeapProviders ==
  /\ LET r == ProvidersHeap(heap, mslice, {mslice.arr, arg.arr})
         t == Settled(r.heap, mslice, Held(r.slice, "Provider"), arg)
     IN  /\ heap' = t.heap /\ mslice' = t.mslice /\ held' = t.held /\ arg' = t.arg
         /\ res' = [NoRes EXCEPT !.list = Contents(r.heap, r.slice)]
         /\ providers' = Contents(r.heap, mslice)
  /\ op' = Op("Providers", <<>>, <<>>)
  /\ UNCHANGED <<rules, rwVars>>

HeapViews ==
  /\ LET r == ViewsHeap(heap, mslice, {mslice.arr, arg.arr})
         t == Settled(r.heap, mslice, Held(r.slice, "ProviderView"), arg)
     IN  /\ heap' = t.heap /\ mslice' = t.mslice /\ held' = t.held /\ arg' = t.arg
         /\ res' = [NoRes EXCEPT !.list = Contents(r.heap, r.slice)]
         /\ providers' = Contents(r.heap, mslice)
  /\ op' = Op("Views", <<>>, <<>>)
  /\ UNCHANGED <<rules, rwVars>>

HeapMatch(requestedModel) ==
  /\ LET r == MatchIn(Contents(heap, mslice), requestedModel)
     IN  res' = [found |-> r.found, provider |-> r.provider, model |-> r.model, list |-> <<>>]
  /\ op' = Op("Match", <<>>, requestedModel)
  /\ UNCHANGED <<providers, rules, rwVars, aliasVars>>

\* the caller assigns to element i of the list it holds
SetHeld(i) ==
  /\ i \in 1..held.len
  /\ heap' = [heap EXCEPT ![held.arr][i] =
                IF held.of = "Provider" THEN Scribble ELSE ViewOf(Scribble)]
  /\ providers' = Contents(heap', mslice)
  /\ op' = Op("SetHeld", <<>>, <<>>)
  /\ res' = NoRes
  /\ UNCHANGED <<mslice, held, arg, rules, rwVars>>

\* the caller drops the last element of the list it holds
TruncateHeld ==
  /\ held.len > 0
  /\ held' = [held EXCEPT !.len = @ - 1]
  /\ providers' = Contents(heap, mslice)
  /\ op' = Op("TruncateHeld", <<>>, <<>>)
  /\ res' = NoRes
  /\ UNCHANGED <<heap, mslice, arg, rules, rwVars>>

\* the caller appends to the list it holds
AppendHeld ==
  /\ held.len < MaxLen
  /\ LET r == IF held.of = "Provider"
              THEN GoAppend(heap, held, Scribble, Roots, ZeroProvider)
              ELSE GoAppend(heap, held, ViewOf(Scribble), Roots, ViewOf(ZeroProvider))
         t == Settled(r.heap, mslice, Held(r.slice, held.of), arg)
     IN  /\ heap' = t.heap /\ mslice' = t.mslice /\ held' = t.held /\ arg' = t.arg
         /\ providers' = Contents(r.heap, mslice)
  /\ op' = Op("AppendHeld", <<>>, <<>>)
  /\ res' = NoRes
  /\ UNCHANGED <<rules, rwVars>>

\* the caller assigns to element i of the slice it passed to SetAll
SetArg(i) ==
  /\ i \in 1..arg.len
  /\ heap' = [heap EXCEPT ![arg.arr][i] = Scribble]
  /\ providers' = Contents(heap', mslice)
  /\ op' = Op("SetArg", <<>>, <<>>)
  /\ res' = NoRes
  /\ UNCHANGED <<mslice, held, arg, rules, rwVars>>

NextAlias ==
  \/ \E i \in DOMAIN AliasProviders : HeapUpsert(AliasProviders[i])
  \/ \E i \in DOMAIN AliasLists : HeapSetAll(AliasLists[i])
  \/ HeapProviders
  \/ HeapViews
  \/ HeapMatch(S_codexGpt5)
  \/ SetHeld(1)
  \/ TruncateHeld
  \/ AppendHeld
  \/ SetArg(1)

SpecAlias == InitAlias /\ [][NextAlias]_vars

\* =================================================================== claims
\* the indices of the providers of the registry that accept model m
Accepting(m) == {i \in 1..Len(providers) : ShouldProxy(providers[i], m)}

\* C1 (state part): what Match returned is the first provider in list order
\* that accepts the model; no later accepting provider comes before it.
C1_MatchReturnsFirst ==
  (op.name = "Match" /\ res.found) =>
     \E i \in Accepting(op.model) :
        /\ res.provider = providers[i]
        /\ \A j \in Accepting(op.model) : i <= j

\* C1 (step part): Upsert appends at the end or replaces in place, SetAll keeps
\* the order of its argument, and no other operation touches the order.
C1_OrderStep ==
  /\ op'.name = "Upsert" =>
       LET p    == normalizeProvider(op'.provs[1])
           same == {i \in 1..Len(providers) : sameProvider(providers[i], p)}
       IN  IF same = {}
           THEN /\ Len(providers') = Len(providers) + 1
                /\ providers'[Len(providers')] = p
                /\ \A i \in 1..Len(providers) : providers'[i] = providers[i]
           ELSE /\ Len(providers') = Len(providers)
                /\ \E i \in same :
                     /\ providers'[i] = p
                     /\ \A j \in 1..Len(providers) : j # i => providers'[j] = providers[j]
  /\ op'.name = "SetAll" =>
       /\ Len(providers') = Len(op'.provs)
       /\ \A i \in 1..Len(op'.provs) : providers'[i] = normalizeProvider(op'.provs[i])
  /\ op'.name \notin {"Upsert", "SetAll"} => providers' = providers

\* C1: for every registry reachable by Upsert and SetAll, Match returns the
\* first provider in list order that accepts the model, and list order is
\* registration order (append at the end, replace in place, SetAll keeps the
\* order of its argument, nothing reorders).
C1_FirstMatchWins == [](C1_MatchReturnsFirst) /\ [][C1_OrderStep]_vars

\* C1 witness: Match returned the first of two different accepting providers.
C1_Witness ==
  /\ op.name = "Match" /\ res.found
  /\ Cardinality(Accepting(op.model)) >= 2
  /\ res.provider = providers[1]
  /\ providers[2] # providers[1]
  /\ 2 \in Accepting(op.model)

\* C2: Match finds a provider exactly when some registered provider has a
\* non-blank base url and either route_all or a trimmed prefix that the trimmed
\* model starts with; a route_all provider with a base url makes every Match
\* succeed; a provider with a blank base url is never returned.
C2_FoundIff ==
  op.name = "Match" =>
    /\ res.found <=>
         \E i \in 1..Len(providers) :
            /\ ~Blank(providers[i].BaseURL)
            /\ \/ providers[i].RouteAll
               \/ HasPrefix(TrimSpace(op.model), TrimSpace(providers[i].ModelPrefix))
    /\ (\E i \in 1..Len(providers) : providers[i].RouteAll /\ ~Blank(providers[i].BaseURL))
          => res.found
    /\ res.found => ~Blank(res.provider.BaseURL)

\* C2 witness: a route_all provider with a blank base url is registered first
\* and Match returned the provider behind it.
C2_Witness ==
  /\ op.name = "Match" /\ res.found
  /\ Len(providers) = 2
  /\ providers[1].RouteAll /\ Blank(providers[1].BaseURL)
  /\ res.provider = providers[2]

\* the registry holds a provider with prefix "codex/" and route_all off
HasCodexProvider ==
  \E i \in 1..Len(providers) :
     providers[i].ModelPrefix = S_codexPrefix /\ ~providers[i].RouteAll

\* C3 as stated: with any provider registered that has prefix "codex/" and
\* route_all off, whatever its other fields, Match("codex/gpt-5") succeeds with
\* "gpt-5", and Match("other/gpt-5") fails when it is the only provider.
C3_Original ==
  /\ (op.name = "Match" /\ op.model = S_codexGpt5 /\ HasCodexProvider)
        => (res.found /\ res.model = S_gpt5)
  /\ (op.name = "Match" /\ op.model = S_otherGpt5 /\ HasCodexProvider /\ Len(providers) = 1)
        => ~res.found

\* C3 amended: a provider with prefix "codex/", route_all off and a non-blank
\* base url makes Match("codex/gpt-5") succeed, with rewritten model "gpt-5"
\* when no provider registered before it accepts the model;
\* Match("other/gpt-5") fails when it is the only provider.
C3_CodexPrefix ==
  /\ (op.name = "Match" /\ op.model = S_codexGpt5) =>
        \A i \in 1..Len(providers) :
           (/\ providers[i].ModelPrefix = S_codexPrefix
            /\ ~providers[i].RouteAll
            /\ ~Blank(providers[i].BaseURL))
           => /\ res.found
              /\ (\A j \in 1..(i - 1) : j \notin Accepting(op.model))
                    => (res.model = S_gpt5 /\ res.provider = providers[i])
  /\ (op.name = "Match" /\ op.model = S_otherGpt5 /\ HasCodexProvider /\ Len(providers) = 1)
        => ~res.found

\* C3 witness: Match("codex/gpt-5") returned a "codex/" provider and "gpt-5".
C3_Witness ==
  /\ op.name = "Match" /\ op.model = S_codexGpt5
  /\ res.found /\ res.model = S_gpt5
  /\ res.provider.ModelPrefix = S_codexPrefix /\ ~res.provider.RouteAll

\* C5: Upsert is idempotent: after any Upsert, a second Upsert of the same
\* provider changes nothing, and if no entry had that name before, exactly one
\* entry has it afterwards.
C5_UpsertIdempotent ==
  [][op'.name = "Upsert" =>
       LET name == normalizeProvider(op'.provs[1]).Name
       IN  /\ UpsertIn(providers', op'.provs[1]) = providers'
           /\ (\A i \in 1..Len(providers) : providers[i].Name # name)
                 => Cardinality({i \in 1..Len(providers') : providers'[i].Name = name}) = 1
    ]_vars

\* C5 witness: an Upsert produced a registry of two entries in which the
\* upserted name occurs exactly once.
C5_Witness ==
  /\ op.name = "Upsert" /\ Len(providers) = 2
  /\ Cardinality({i \in 1..Len(providers) :
                    providers[i].Name = normalizeProvider(op.provs[1]).Name}) = 1

\* the registry with every non-blank credential replaced by alt
WithSecrets(list, alt) ==
  [i \in 1..Len(list) |->
     [list[i] EXCEPT !.APIKey = IF Blank(@) THEN @ ELSE alt,
                     !.AccessToken = IF Blank(@) THEN @ ELSE alt,
                     !.AccountID = IF Blank(@) THEN @ ELSE alt]]

OtherSecrets == {S_k1, S_k2, <<"z">>}

\* C6: Views exposes, per provider, exactly name, kind, base url, prefix,
\* route_all and three presence flags; each flag is true exactly when the stored
\* credential is non-blank; and the output is the same for every registry that
\* differs only in the values of its non-blank credentials.
C6_ViewsRedacted ==
  op.name = "Views" =>
    /\ Len(res.list) = Len(providers)
    /\ \A i \in 1..Len(providers) :
         /\ DOMAIN res.list[i] = {"Name", "Kind", "BaseURL", "HasAPIKey", "HasAccessToken",
                                  "HasAccountID", "ModelPrefix", "RouteAll"}
         /\ res.list[i].Name = providers[i].Name
         /\ res.list[i].Kind = providers[i].Kind
         /\ res.list[i].BaseURL = providers[i].BaseURL
         /\ res.list[i].ModelPrefix = providers[i].ModelPrefix
         /\ res.list[i].RouteAll = providers[i].RouteAll
         /\ res.list[i].HasAPIKey = (TrimSpace(providers[i].APIKey) # <<>>)
         /\ res.list[i].HasAccessToken = (TrimSpace(providers[i].AccessToken) # <<>>)
         /\ res.list[i].HasAccountID = (TrimSpace(providers[i].AccountID) # <<>>)
    /\ \A alt \in OtherSecrets : ViewsOf(WithSecrets(providers, alt)) = res.list

\* C6 witness: Views ran on a registry with an api key, a whitespace-only api
\* key and an account id.
C6_Witness ==
  /\ op.name = "Views" /\ Len(providers) = 2
  /\ \E i, j \in 1..2 :
       /\ providers[i].APIKey = S_k1 /\ res.list[i].HasAPIKey
       /\ providers[j].APIKey = S_sp /\ ~res.list[j].HasAPIKey
       /\ res.list[j].HasAccessToken

\* ------------------------------------------------ claims on runCompletion
\* the provider Match hands to runCompletion for model m
FirstAccepting(m) == providers[SetMin(Accepting(m))]

\* the positions of the calls to callee in the trace of the last request
CallsTo(callee) == {i \in 1..Len(res.trace) : res.trace[i].callee = callee}

\* the last operation was a request with messages that a provider accepted
MatchedRequest ==
  /\ op.name = "RunCompletion"
  /\ Len(op.req.Messages) > 0
  /\ Accepting(op.req.Model) # {}

\* out is model m rewritten for provider p: one leading occurrence of the
\* trimmed prefix removed when the trimmed model starts with it, else the
\* trimmed model itself
Rewritten(p, m, out) ==
  LET model  == TrimSpace(m)
      prefix == TrimSpace(p.ModelPrefix)
  IN  IF HasPrefix(model, prefix) THEN model = prefix \o out ELSE out = model

\* C4: on a match the rewritten model is the trimmed requested model with
\* exactly one leading occurrence of the matched provider's trimmed prefix
\* removed, or the trimmed model unchanged when the prefix does not apply, and
\* that rewritten model is the model of every outbound payload.
C4_RewrittenModel ==
  /\ (op.name = "Match" /\ res.found) => Rewritten(res.provider, op.model, res.model)
  /\ op.name = "RunCompletion" =>
       \A i \in CallsTo("Upstream") :
          Rewritten(FirstAccepting(op.req.Model), op.req.Model, res.trace[i].arg.payload.model)

\* C4 witness: a request for " codex/codex/x " went upstream as "codex/x".
C4_Witness ==
  /\ MatchedRequest
  /\ op.req.Model = S_codexCodexXPadded
  /\ FirstAccepting(op.req.Model).ModelPrefix = S_codexPrefix
  /\ \E i \in CallsTo("Upstream") : res.trace[i].arg.payload.model = S_codexX

\* C8: a request without messages fails with status 400 before any provider
\* lookup, upstream call or rule lookup.
C8_EmptyMessages ==
  (op.name = "RunCompletion" /\ Len(op.req.Messages) = 0) =>
     /\ res.status = StatusBadRequest
     /\ res.err = Error("messages must not be empty", "", 0)
     /\ res.resp = ZeroResponse
     /\ res.trace = <<>>

\* C8 witness: a request without messages, for a model that a registered
\* provider accepts, was refused.
C8_Witness ==
  /\ op.name = "RunCompletion" /\ Len(op.req.Messages) = 0
  /\ Accepting(op.req.Model) # {}
  /\ res.status = StatusBadRequest

\* C9 as stated: on a match, for every kind, a transport error gives 502, an
\* upstream status >= 400 gives that status, a body that does not decode into
\* the canonical shape gives 502 "invalid remote response", and every other
\* case gives status 200 without error.
C9_Original ==
  MatchedRequest =>
    LET u       == op.upstream
        decodes == ~UnmarshalCompletionResponse(u.body).err
    IN  /\ ~u.ok => (res.status = StatusBadGateway /\ res.err # NoError)
        /\ (u.ok /\ u.status >= 400) => (res.status = u.status /\ res.err # NoError)
        /\ (u.ok /\ u.status < 400 /\ ~decodes)
              => (res.status = StatusBadGateway /\ res.err.msg = "invalid remote response")
        /\ (u.ok /\ u.status < 400 /\ decodes)
              => (res.status = StatusOK /\ res.err = NoError)

\* C9 amended: on a match, a translator failure (base url empty once trimmed
\* of spaces and trailing slashes, transport error, or for ollama an answer
\* below 400 that does not decode into the native shape) gives 502 "remote
\* request failed"; else a status >= 400 gives that status; else for the
\* generic and codex kinds a body that does not decode into the canonical
\* shape gives 502 "invalid remote response"; else status 200, no error and
\* the translated response (for chatgpt whatever the body is).
C9_Outcome ==
  MatchedRequest =>
    LET u       == op.upstream
        p       == FirstAccepting(op.req.Model)
        noBase  == TrimRight(TrimSpace(p.BaseURL), {"/"}) = <<>>
        native  == UnmarshalOllama(u.body)
        canon   == UnmarshalCompletionResponse(u.body)
        failing == noBase \/ ~u.ok
                   \/ (u.status < 400 /\ p.Kind = S_ollama /\ native.err)
    IN  IF failing
        THEN /\ res.status = StatusBadGateway
             /\ res.err.msg = "remote request failed"
             /\ res.resp = ZeroResponse
        ELSE IF u.status >= 400
        THEN /\ res.status = u.status
             /\ res.err = Error("remote returned status", "", u.status)
             /\ res.resp = ZeroResponse
        ELSE IF p.Kind \notin {S_ollama, S_chatgpt} /\ canon.err
        THEN /\ res.status = StatusBadGateway
             /\ res.err = Error("invalid remote response", "", 0)
             /\ res.resp = ZeroResponse
        ELSE /\ res.status = StatusOK
             /\ res.err = NoError
             /\ IF p.Kind = S_ollama
                THEN /\ res.resp.ID = S_idOllama
                     /\ res.resp.Model = native.out.Model
                     /\ res.resp.Choices[1].Message = native.out.Message
                ELSE IF p.Kind = S_chatgpt
                THEN /\ res.resp.ID = S_idChatGPT
                     /\ res.resp.Choices[1].Message.Role = S_assistant
                ELSE res.resp = canon.out

\* C9 witness: an ollama provider matched, the upstream answered 200 with a
\* body that is not in the native shape, and the request failed with 502
\* "remote request failed".
C9_Witness ==
  /\ MatchedRequest
  /\ FirstAccepting(op.req.Model).Kind = S_ollama
  /\ op.upstream.ok /\ op.upstream.status = 200
  /\ UnmarshalOllama(op.upstream.body).err
  /\ res.status = StatusBadGateway
  /\ res.err = Error("remote request failed", "decode ollama response", 0)

\* the decode step of the matched provider's kind fails on the upstream body
DecodeFails ==
  LET p == FirstAccepting(op.req.Model)
  IN  \/ p.Kind = S_ollama /\ UnmarshalOllama(op.upstream.body).err
      \/ p.Kind \notin {S_ollama, S_chatgpt} /\ UnmarshalCompletionResponse(op.upstream.body).err

\* C10: a request that a provider accepts makes one provider lookup, at most
\* one outbound call, to that provider, and no rule lookup; a transport error,
\* a status >= 400 or a decode failure ends it with an error and no response;
\* the rule store is consulted only when no provider accepts.
C10_NoRetryNoFallback ==
  op.name = "RunCompletion" =>
    /\ MatchedRequest =>
         /\ Cardinality(CallsTo("Upstream")) <= 1
         /\ Cardinality(CallsTo("Match")) = 1
         /\ CallsTo("Rules") = {}
         /\ \A i \in CallsTo("Upstream") :
               HasPrefix(res.trace[i].arg.url,
                         TrimRight(TrimSpace(FirstAccepting(op.req.Model).BaseURL), {"/"}))
         /\ (~op.upstream.ok \/ op.upstream.status >= 400 \/ DecodeFails)
               => (res.err # NoError /\ res.resp = ZeroResponse /\ res.status >= 400)
    /\ CallsTo("Rules") # {} => Accepting(op.req.Model) = {}

\* C10 witness: the transport failed for a matched request; one outbound call
\* was made and the request ended with 502.
C10_Witness ==
  /\ MatchedRequest
  /\ ~op.upstream.ok
  /\ Cardinality(CallsTo("Upstream")) = 1
  /\ res.status = StatusBadGateway

\* ------------------------------------------------- claims on Manager.mu
\* C7: a caller inside Upsert or SetAll excludes every other caller from the
\* registry (readers may be inside together), the list is the last completed
\* write's whenever no writer is inside, a SetAll releases the lock on the
\* complete normalized new list, and what a reader has read under its lock is
\* computed from the last completed write's list, never from a truncated or
\* half-replaced one.
C7_ReaderWriterLock ==
  /\ \A p, q \in Procs :
        (p # q /\ pc[p] \in WriterCS) => pc[q] \notin (WriterCS \cup ReaderCS)
  /\ (\A p \in Procs : pc[p] \notin WriterCS) => providers = committed
  /\ \A p \in Procs :
        (pc[p] = "Unlock" /\ call[p].name = "SetAll") => providers = SetAllOf(call[p].provs)
  /\ \A p \in Procs :
        pc[p] = "RUnlock" => obs[p] = ReadOf(call[p].name, committed, call[p].model)

\* C7 witness: two readers are inside together, one of them has read the
\* complete two-entry list that a SetAll left behind.
C7_Witness ==
  \E p, q \in Procs :
     /\ p # q
     /\ pc[p] = "RUnlock" /\ pc[q] \in ReaderCS
     /\ call[p].name = "Providers"
     /\ obs[p].list = SetAllOf(RWLists[1])

\* --------------------------------------------------- claims on the mock path
\* the last operation was a request with messages that no provider accepted
UnmatchedRequest ==
  /\ op.name = "RunCompletion"
  /\ Len(op.req.Messages) > 0
  /\ Accepting(op.req.Model) = {}

\* text t occurs in text s when the two are compared without regard to case
OccursIn(t, s) ==
  \E k \in 0..(Len(s) - Len(t)) :
     \A j \in 1..Len(t) : LowerChar(s[k + j]) = LowerChar(t[j])

\* the rules whose contains text occurs in the last message of the request
RulesHit == {i \in 1..Len(rules) :
               OccursIn(rules[i].Contains, op.req.Messages[Len(op.req.Messages)].Content)}

\* C11: a request with messages that no provider accepts ends with status 200
\* and no error; the reply is that of the first rule, in list order, whose
\* contains text occurs case-insensitively in the last message, or the fixed
\* fallback text when there is none; the response has id "chatcmpl-mock", one
\* choice with index 0, finish reason "stop" and role "assistant", and its model
\* is the requested model, or "gpt-mock-1" when the requested model is blank.
C11_MockReply ==
  UnmatchedRequest =>
    /\ res.status = StatusOK
    /\ res.err = NoError
    /\ res.resp.ID = S_idMock
    /\ Len(res.resp.Choices) = 1
    /\ res.resp.Choices[1].Index = 0
    /\ res.resp.Choices[1].FinishReason = S_stop
    /\ res.resp.Choices[1].Message.Role = S_assistant
    /\ res.resp.Choices[1].Message.Content =
          (IF RulesHit = {} THEN S_fallbackReply ELSE rules[SetMin(RulesHit)].Reply)
    /\ res.resp.Model = (IF Blank(op.req.Model) THEN S_gptMock1 ELSE op.req.Model)

\* C11 witness: no provider accepted "other/gpt-5"; the last message "What
\* WEATHER?" hit both rules "Weather" and "weather", and the reply is the
\* first rule's.
C11_Witness ==
  /\ UnmatchedRequest
  /\ op.req.Model = S_otherGpt5
  /\ Cardinality(RulesHit) = 2
  /\ res.resp.Choices[1].Message.Content = S_pizzaReply

\* ------------------------------------------- claims on the outbound headers
\* header h carries credential c after "Bearer " as its Authorization
Authorizes(h, c) == "Authorization" \in DOMAIN h /\ h["Authorization"] = S_Bearer \o c

\* the account header of h is set exactly when the account id of p is not
\* blank, and then to the account id as configured
AccountHeader(h, p) ==
  /\ ("chatgpt-account-id" \in DOMAIN h) <=> ~Blank(p.AccountID)
  /\ ~Blank(p.AccountID) => h["chatgpt-account-id"] = p.AccountID

\* C12 as stated: every outbound call carries "Bearer " followed by the access
\* token when that is not blank, else by the api key when that is not blank,
\* else no Authorization header; the account header is set to the account id
\* exactly when that is not blank.
C12_Original ==
  op.name = "RunCompletion" =>
    \A i \in CallsTo("Upstream") :
       LET p == FirstAccepting(op.req.Model)
           h == res.trace[i].arg.header
       IN  /\ IF ~Blank(p.AccessToken) THEN Authorizes(h, p.AccessToken)
              ELSE IF ~Blank(p.APIKey) THEN Authorizes(h, p.APIKey)
              ELSE "Authorization" \notin DOMAIN h
           /\ AccountHeader(h, p)

\* C12 amended: every outbound call, whatever the kind of the provider,
\* carries "Bearer " followed by the access token trimmed of surrounding
\* white space when the access token is not blank, else by the api key trimmed
\* likewise when the api key is not blank, else no Authorization header; the
\* account header is set, to the account id as configured, exactly when the
\* account id is not blank.
C12_AuthHeader ==
  op.name = "RunCompletion" =>
    \A i \in CallsTo("Upstream") :
       LET p == FirstAccepting(op.req.Model)
           h == res.trace[i].arg.header
       IN  /\ IF ~Blank(p.AccessToken) THEN Authorizes(h, TrimSpace(p.AccessToken))
              ELSE IF ~Blank(p.APIKey) THEN Authorizes(h, TrimSpace(p.APIKey))
              ELSE "Authorization" \notin DOMAIN h
           /\ AccountHeader(h, p)

\* C12 witness: a generic provider holding an api key, the access token " t1 "
\* and the account id " a1 " was called with "Bearer t1" and account " a1 ".
C12_Witness ==
  /\ MatchedRequest
  /\ FirstAccepting(op.req.Model) = normalizeProvider(P_both)
  /\ \E i \in CallsTo("Upstream") :
        /\ res.trace[i].arg.header["Authorization"] = S_Bearer \o S_t1
        /\ res.trace[i].arg.header["chatgpt-account-id"] = S_a1Padded

\* ------------------------------------------ claims on the stored providers
\* C13: no two entries of the registry have the same name.
C13_UniqueNames ==
  \A i, j \in 1..Len(providers) :
     i # j => providers[i].Name # providers[j].Name

\* the kinds the spec closes the set of kinds with
Kinds == {S_openai, S_ollama, S_chatgpt, S_codex}

\* C14: every entry of the registry has one of the four kinds.
C14_ClosedKinds ==
  \A i \in 1..Len(providers) : providers[i].Kind \in Kinds

\* stored is what the registry keeps of the submitted record input, as far as
\* the model prefix goes: a blank prefix became the default of the stored kind,
\* any other prefix is kept as submitted
PrefixRule(input, stored) ==
  IF Blank(input.ModelPrefix)
  THEN stored.ModelPrefix =
         (IF stored.Kind = S_ollama THEN <<"o", "l", "l", "a", "m", "a", "/">>
          ELSE IF stored.Kind = S_codex THEN <<"c", "o", "d", "e", "x", "/">>
          ELSE IF stored.Kind = S_chatgpt THEN <<"c", "h", "a", "t", "g", "p", "t", "/">>
          ELSE <<"r", "e", "m", "o", "t", "e", "/">>)
  ELSE stored.ModelPrefix = input.ModelPrefix

\* stored carries the credentials, base url and route_all flag of input
StoredFrom(input, stored) ==
  /\ stored.APIKey = input.APIKey
  /\ stored.AccessToken = input.AccessToken
  /\ stored.AccountID = input.AccountID
  /\ stored.RouteAll = input.RouteAll
  /\ ~Blank(input.BaseURL) => stored.BaseURL = input.BaseURL

\* C15: every entry of the registry has a non-blank model prefix; the entry
\* that an Upsert stored, and each entry that a SetAll stored, has the prefix
\* submitted when that was not blank, and else "ollama/", "codex/" or
\* "chatgpt/" for those kinds and "remote/" for every other kind.
C15_PrefixNeverBlank ==
  /\ \A i \in 1..Len(providers) : ~Blank(providers[i].ModelPrefix)
  /\ op.name = "Upsert" =>
       \E i \in 1..Len(providers) :
          StoredFrom(op.provs[1], providers[i]) /\ PrefixRule(op.provs[1], providers[i])
  /\ op.name = "SetAll" =>
       /\ Len(providers) = Len(op.provs)
       /\ \A i \in 1..Len(providers) :
             StoredFrom(op.provs[i], providers[i]) /\ PrefixRule(op.provs[i], providers[i])

\* C15 witness: the registry holds the prefix " codex/ " as it was submitted,
\* and the ollama entry just submitted without a prefix has "ollama/".
C15_Witness ==
  /\ op.name = "Upsert" /\ op.provs[1] = P_ollamaBlank
  /\ \E i, j \in 1..Len(providers) :
        /\ providers[i].ModelPrefix = S_codexPrefixPadded
        /\ providers[j].Kind = S_ollama /\ providers[j].ModelPrefix = S_ollamaPrefix

\* --------------------------------------------------------- claims on Upsert
\* identity of two records under the priority rule: by name when both names
\* are non-blank, else by prefix when both prefixes are non-blank, else by
\* kind and base url
Identical(a, b) ==
  LET named    == TrimSpace(a.Name) # <<>> /\ TrimSpace(b.Name) # <<>>
      prefixed == TrimSpace(a.ModelPrefix) # <<>> /\ TrimSpace(b.ModelPrefix) # <<>>
  IN  \/ named /\ a.Name = b.Name
      \/ ~named /\ prefixed /\ a.ModelPrefix = b.ModelPrefix
      \/ ~named /\ ~prefixed /\ a.Kind = b.Kind /\ a.BaseURL = b.BaseURL

\* the entries of list that are identical to record p
IdenticalTo(list, p) == {i \in 1..Len(list) : Identical(list[i], p)}

\* the entries of list whose prefix is the non-blank prefix of record p
SamePrefix(list, p) ==
  {i \in 1..Len(list) : ~Blank(p.ModelPrefix) /\ list[i].ModelPrefix = p.ModelPrefix}

\* C16 as stated: Upsert replaces the first entry identical to the normalized
\* record and appends when there is none; and an Upsert of a record submitted
\* with a blank name replaces an entry that has the same non-blank prefix.
C16_Original ==
  [][op'.name = "Upsert" =>
       LET p   == normalizeProvider(op'.provs[1])
           ids == IdenticalTo(providers, p)
       IN  /\ providers' = IF ids = {} THEN Append(providers, p)
                           ELSE [providers EXCEPT ![SetMin(ids)] = p]
           /\ (Blank(op'.provs[1].Name) /\ SamePrefix(providers, p) # {})
                 => /\ Len(providers') = Len(providers)
                    /\ \E i \in SamePrefix(providers, p) : providers'[i] = p
    ]_vars

\* C16 amended: Upsert replaces the first entry identical to the normalized
\* record and appends when there is none; a record submitted with a blank name
\* is compared under the name normalization derives from its prefix, so it
\* replaces an entry that has the same non-blank prefix only when that entry
\* is identical to it by name or one of the two names is blank, and is appended
\* next to the entries of the same prefix when no entry is identical.
C16_IdentityRule ==
  [][op'.name = "Upsert" =>
       LET p   == normalizeProvider(op'.provs[1])
           ids == IdenticalTo(providers, p)
       IN  /\ providers' = IF ids = {} THEN Append(providers, p)
                           ELSE [providers EXCEPT ![SetMin(ids)] = p]
           /\ (Blank(op'.provs[1].Name) /\ SamePrefix(providers, p) # {})
                 => IF \E i \in 1..Len(providers) :
                          \/ providers[i].Name = p.Name
                          \/ i \in SamePrefix(providers, p)
                               /\ (Blank(p.Name) \/ Blank(providers[i].Name))
                    THEN Len(providers') = Len(providers)
                    ELSE providers' = Append(providers, p)
    ]_vars

\* C16 witness: a record submitted without a name and with a blank prefix was
\* stored as "remote" with prefix "remote/", next to the entry "all" that has
\* the same prefix.
C16_Witness ==
  /\ op.name = "Upsert" /\ op.provs[1] = P_foo
  /\ Len(providers) = 2
  /\ providers[1].Name = S_all /\ providers[1].ModelPrefix = S_remotePrefix
  /\ providers[2] = normalizeProvider(P_foo) /\ providers[2].ModelPrefix = S_remotePrefix

\* record stored is record input with nothing but the normalized fields
\* changed: the credentials and the flag are those submitted
WholeRecord(input, stored) ==
  /\ stored = normalizeProvider(input)
  /\ stored.APIKey = input.APIKey
  /\ stored.AccessToken = input.AccessToken
  /\ stored.AccountID = input.AccountID
  /\ stored.RouteAll = input.RouteAll

\* C17: an Upsert that finds an identity match leaves the length of the list
\* and every other entry as they were and makes the matched entry the
\* normalized incoming record, field by field; an Upsert that finds none adds
\* that record at the end and changes no entry.
C17_WholeRecordReplaced ==
  [][op'.name = "Upsert" =>
       LET p == normalizeProvider(op'.provs[1])
       IN  IF IdenticalTo(providers, p) # {}
           THEN /\ Len(providers') = Len(providers)
                /\ \E i \in IdenticalTo(providers, p) :
                      /\ WholeRecord(op'.provs[1], providers'[i])
                      /\ \A j \in 1..Len(providers) : j # i => providers'[j] = providers[j]
           ELSE /\ Len(providers') = Len(providers) + 1
                /\ WholeRecord(op'.provs[1], providers'[Len(providers')])
                /\ \A j \in 1..Len(providers) : providers'[j] = providers[j]
    ]_vars

\* C17 witness: the record submitted for "codex" without credentials is the
\* first of two entries, with no api key, and the second entry is "all".
C17_Witness ==
  /\ op.name = "Upsert" /\ op.provs[1] = P_codexNoURL
  /\ Len(providers) = 2
  /\ providers[1] = normalizeProvider(P_codexNoURL) /\ providers[1].APIKey = <<>>
  /\ providers[2] = normalizeProvider(P_all)

\* ------------------------------------------------------ claims on aliasing
\* what the caller does to the lists it holds
CallerWrites == {"SetHeld", "TruncateHeld", "AppendHeld", "SetArg"}

\* C18: the list Providers or Views hands out holds what the registry holds
\* (redacted for Views) on an array of its own; a caller that changes, removes
\* or appends elements of the list it holds, or changes the slice it passed to
\* SetAll, leaves the registry as it was, and with it every later Providers,
\* Views and Match; an Upsert or SetAll leaves the list handed out earlier as
\* it was, and SetAll leaves its argument as it was passed.
C18_ListsAreCopies ==
  [][/\ op'.name \in CallerWrites => providers' = providers
     /\ op'.name \in {"Upsert", "SetAll"} => HeldList' = HeldList
     /\ op'.name = "SetAll" => ArgList' = op'.provs
     /\ op'.name = "Providers" =>
          /\ providers' = providers /\ res'.list = providers
          /\ held'.arr # mslice'.arr
     /\ op'.name = "Views" =>
          /\ providers' = providers /\ res'.list = ViewsOf(providers)
          /\ held'.arr # mslice'.arr
     /\ op'.name = "Match" => res' = ReadOf("Match", providers, op'.model)
    ]_vars

\* C18 witness: the caller overwrote the first element of a two-entry list it
\* got from Providers; the registry still holds its two entries.
C18_Witness ==
  /\ op.name = "SetHeld" /\ held.of = "Provider"
  /\ Len(HeldList) = 2 /\ HeldList[1] = Scribble
  /\ providers = SetAllOf(<<P_codex, P_all>>)

\* ------------------------------------------- claims on the upstream answer
\* the matched provider's server was called and answered
UpstreamAnswered ==
  /\ MatchedRequest
  /\ CallsTo("Upstream") # {}
  /\ op.upstream.ok

\* C19: when the matched upstream answers with a status outside 200..299 the
\* request ends with an error and not with status 200, and with the upstream
\* status when that is 400 or more.
C19_Non2xxFails ==
  (UpstreamAnswered /\ op.upstream.status \notin 200..299) =>
     /\ res.err # NoError
     /\ res.status # StatusOK
     /\ op.upstream.status >= 400 => res.status = op.upstream.status

\* C20: every response returned with status 200 has a usage whose total is
\* the sum of its prompt and completion counters.
C20_UsageTotal ==
  (op.name = "RunCompletion" /\ res.status = StatusOK) =>
     res.resp.Usage.TotalTokens =
        res.resp.Usage.PromptTokens + res.resp.Usage.CompletionTokens

\* ------------------------------------------- claims on the chatgpt backend
\* the last request went to a chatgpt provider whose upstream answered 2xx
ChatGPTAnswered ==
  /\ UpstreamAnswered
  /\ FirstAccepting(op.req.Model).Kind = S_chatgpt
  /\ op.upstream.status \in 200..299

\* the "text" strings of the elements of the content array of item, in order
TextsIn(item) ==
  LET content == IF item.t = "obj" /\ HasKey(item.v, "content") /\ item.v["content"].t = "arr"
                 THEN item.v["content"].v ELSE <<>>
      HasText(c) == c.t = "obj" /\ HasKey(c.v, "text") /\ c.v["text"].t = "str"
      texts == SelectSeq(content, HasText)
  IN  [i \in 1..Len(texts) |-> texts[i].v["text"].v]

\* the texts of the first n elements of the output array out, in array order
RECURSIVE TextsUpTo(_, _)
TextsUpTo(out, n) ==
  IF n = 0 THEN <<>> ELSE TextsUpTo(out, n - 1) \o TextsIn(out[n])

\* the text that the layers, tried in order, find in body
LayeredText(body) ==
  LET isObj == body.t = "obj"
  IN  IF isObj /\ HasKey(body.v, "output_text") /\ body.v["output_text"].t = "str"
              /\ ~Blank(body.v["output_text"].v)
      THEN body.v["output_text"].v
      ELSE IF isObj /\ HasKey(body.v, "output") /\ body.v["output"].t = "arr"
      THEN TrimSpace(Join(TextsUpTo(body.v["output"].v, Len(body.v["output"].v)), <<"\n">>))
      ELSE <<>>

\* C21: a 2xx answer of a chatgpt upstream always ends with status 200 and no
\* error, and the content of the one choice is the top-level output_text when
\* that is a non-blank string, else the texts of the output array joined with
\* newlines and trimmed, else the empty string.
C21_ExtractionLayers ==
  ChatGPTAnswered =>
     /\ res.status = StatusOK
     /\ res.err = NoError
     /\ Len(res.resp.Choices) = 1
     /\ res.resp.Choices[1].Message.Content = LayeredText(op.upstream.body)

====
